---- MODULE Spec2Model ----
(***************************************************************************)
(* A model of cascii-core-view: the AnimationController playback state     *)
(* machine (animation.rs), the .cframe decoder (parser.rs), the            *)
(* FrameLoaderState phase machine and the two loading functions            *)
(* load_text_frames / load_color_frames (loader.rs).                       *)
(*                                                                         *)
(* Conventions.                                                            *)
(*  - Option<T> is a sequence: <<>> is None, <<x>> is Some(x).             *)
(*  - Result<T, E> is a record [ok |-> BOOLEAN, val |-> ..., err |-> ...]. *)
(*  - An f64 or f32 is a record [neg, m, e], the number m * 2^e; every     *)
(*    operation on them rounds its exact result as IEEE 754 does.          *)
(*  - A byte buffer is a sequence of numbers 0..255.                       *)
(***************************************************************************)
EXTENDS Integers, Sequences, FiniteSets, TLC

(***************************************************************************)
(* Bounds of the model.                                                    *)
(***************************************************************************)
\* largest frame count handed to set_frame_count
MaxFrames == 5
\* longest file list handed to the loader
MaxFiles == 2
\* cap of the consecutive-tick counter kept for the playback claims; it
\* exceeds every range_frame_count the frame counts above allow
MaxTicks == 8
\* largest of the consecutive frame rates handed to new and set_fps
MaxFps == 1001
\* most columns of a frame handed to render_cframe
MaxCols == 4
\* most bytes following the header in a buffer handed to the decoders: the
\* 16 bytes of a 2 x 2 frame and trailing ones
MaxBody == 18

VARIABLES
    ctrl,      \* the AnimationController
    op,        \* name of the last operation applied (history)
    ret,       \* value returned by the last tick() (history)
    got,       \* number returned by the last position() or interval_ms(), as a
               \* fraction [num, den] (history)
    ticks,     \* ticks since playback was started at start_frame, -1 if none (history)
    ls,        \* the FrameLoaderState
    pc,        \* position of the loading task (load_text_frames / load_color_frames)
    files,     \* the provider's file list of the session
    idx,       \* loop index of the loading task
    lframes,   \* the local `frames` vector of load_text_frames
    result,    \* Option<Result>: what the running / last load function returned
    log,       \* events of the session: yields, provider reads, on_frame calls
    build,     \* the build of the crate: overflow checks and the width of usize
    input,     \* the byte buffer handed to the decoders
    canvas,    \* the frame and configuration handed to render_cframe, and
               \* Option: the RenderResult it returned
    parsed,    \* Option: what parse_cframe(input) returned
    text       \* Option: what parse_cframe_text(input) returned

vars == <<ctrl, op, ret, got, ticks, ls, pc, files, idx, lframes, result, log,
          build, input, canvas, parsed, text>>

(***************************************************************************)
(* Small helpers.                                                          *)
(***************************************************************************)
Min(a, b) == IF a < b THEN a ELSE b
Max(a, b) == IF a > b THEN a ELSE b
\* num / den, den > 0, rounded to the nearest integer, halves upwards
Round(num, den) == (2 * num + den) \div (2 * den)

(***************************************************************************)
(* Numbers.  A natural number is the sequence of its base-256 digits,      *)
(* least significant first, without zeros at the most significant end.     *)
(***************************************************************************)
\* the digits of the small number n, least significant first, none for 0
RECURSIVE nat(_)
nat(n) == IF n = 0 THEN <<>> ELSE <<n % 256>> \o nat(n \div 256)

\* the value of a number below 2^31
RECURSIVE int(_)
int(b) == IF b = <<>> THEN 0 ELSE b[1] + 256 * int(Tail(b))

\* digits without the zeros at the most significant end
RECURSIVE norm(_)
norm(b) ==
    IF b = <<>> \/ b[Len(b)] # 0 THEN b ELSE norm(SubSeq(b, 1, Len(b) - 1))

\* digit i of b, 0 beyond its length
digit(b, i) == IF 1 <= i /\ i <= Len(b) THEN b[i] ELSE 0

\* a < b on numbers
less(a, b) ==
    \E i \in 1 .. Len(b) :
        /\ digit(a, i) < b[i]
        /\ \A j \in (i + 1) .. Max(Len(a), Len(b)) : digit(a, j) = digit(b, j)

\* the sum of a[i] * b[k + 1 - i] over the digits i .. Len(a) of a
RECURSIVE column(_, _, _, _)
column(a, b, k, i) ==
    IF i > Len(a) THEN 0
    ELSE digit(a, i) * digit(b, k + 1 - i) + column(a, b, k, i + 1)

\* the digit s % 256 put before the digits rest
digit_then(s, rest) == <<s % 256>> \o rest

\* digits k .. n of the product a * b, carry being what the lower digits left
RECURSIVE mul_from(_, _, _, _, _)
mul_digit(a, b, k, n, s) == digit_then(s, mul_from(a, b, k + 1, n, s \div 256))
mul_from(a, b, k, n, carry) ==
    IF k > n THEN <<>> ELSE mul_digit(a, b, k, n, carry + column(a, b, k, 1))

\* digits k .. n of the sum a + b
RECURSIVE add_from(_, _, _, _, _)
add_digit(a, b, k, n, s) == digit_then(s, add_from(a, b, k + 1, n, s \div 256))
add_from(a, b, k, n, carry) ==
    IF k > n THEN <<>> ELSE add_digit(a, b, k, n, carry + digit(a, k) + digit(b, k))

\* digits k .. n of the difference a - b, for a >= b
RECURSIVE sub_from(_, _, _, _, _)
sub_digit(a, b, k, n, s) ==
    digit_then(s, sub_from(a, b, k + 1, n, IF s < 0 THEN 1 ELSE 0))
sub_from(a, b, k, n, borrow) ==
    IF k > n THEN <<>> ELSE sub_digit(a, b, k, n, digit(a, k) - digit(b, k) - borrow)

\* the numbers a * b, a + b and a - b (a >= b), of any size
mul(a, b) == norm(mul_from(a, b, 1, Len(a) + Len(b), 0))
add(a, b) == norm(add_from(a, b, 1, Max(Len(a), Len(b)) + 1, 0))
sub(a, b) == norm(sub_from(a, b, 1, Len(a), 0))

\* bit i of a, bit 0 being the least significant
bit(a, i) == (digit(a, (i \div 8) + 1) \div 2^(i % 8)) % 2

\* the number of bits of a: 0 for 0, else the position of the top bit plus 1
bits(a) ==
    IF a = <<>> THEN 0
    ELSE 8 * (Len(a) - 1) + CHOOSE k \in 1 .. 8 : 2^(k - 1) <= a[Len(a)] /\ a[Len(a)] < 2^k

\* a >> (8 * q + r), r < 8
shr_by(a, q, r) ==
    IF Len(a) <= q THEN <<>>
    ELSE norm([i \in 1 .. (Len(a) - q) |->
                  (digit(a, i + q) \div 2^r) + (digit(a, i + q + 1) % 2^r) * 2^(8 - r)])

\* a << (8 * q + r), r < 8
shl_by(a, q, r) ==
    norm([i \in 1 .. (Len(a) + q + 1) |->
             ((digit(a, i - q) * 2^r) % 256) + (digit(a, i - q - 1) \div 2^(8 - r))])

\* a >> d and a << d
shr(a, d) == shr_by(a, d \div 8, d % 8)
shl(a, d) == shl_by(a, d \div 8, d % 8)

\* some bit below bit d of a is set
low_bits(a, d) == \E i \in 0 .. (d - 1) : bit(a, i) = 1

\* the position of the lowest set bit of a # 0, from bit i on
RECURSIVE lowest_bit(_, _)
lowest_bit(a, i) == IF bit(a, i) = 1 THEN i ELSE lowest_bit(a, i + 1)

(***************************************************************************)
(* Binary floating point (f32: 24 significant bits, f64: 53).  A finite    *)
(* value is [neg, m, e]: the number m * 2^e, negated when neg, with m odd, *)
(* or m = 0 and e = 0.  The exponents of this crate's values stay far from *)
(* the limits of both formats; infinities, NaN and subnormal values do not *)
(* occur.                                                                  *)
(***************************************************************************)
F32 == 24
F64 == 53

\* the value m * 2^e of m # 0, whose lowest set bit is bit z
fp_odd(neg, m, e, z) == [neg |-> neg, m |-> shr(m, z), e |-> e + z]

\* the value m * 2^e, exactly
fp_exact(neg, m, e) ==
    IF m = <<>> THEN [neg |-> neg, m |-> <<>>, e |-> 0]
    ELSE fp_odd(neg, m, e, lowest_bit(m, 0))

\* q or q + 1: up when the part cut off is above one half, or is one half
\* and q is odd (ties to even)
nearest_even(q, half, more) ==
    IF half /\ (more \/ bit(q, 0) = 1) THEN add(q, <<1>>) ELSE q

\* m without its d low bits, d > 0, rounded on them (and on inexact, which
\* says that a little more than m is meant)
rounded(m, d, inexact) ==
    nearest_even(shr(m, d), bit(m, d - 1) = 1, low_bits(m, d - 1) \/ inexact)

\* fp_round for m of p + d bits
fp_round_by(neg, m, e, inexact, d) ==
    fp_exact(neg, IF d <= 0 THEN m ELSE rounded(m, d, inexact),
             IF d <= 0 THEN e ELSE e + d)

\* the value with p significant bits nearest to m * 2^e (plus a little more,
\* when inexact), ties to the even one: the rounding of every operation
fp_round(neg, m, e, inexact, p) == fp_round_by(neg, m, e, inexact, bits(m) - p)

\* the integer n as a value of p significant bits: `n as f64`, `n as f32`
fp_int(n, p) == fp_round(n < 0, nat(IF n < 0 THEN -n ELSE n), 0, FALSE, p)

\* the number a (digits) as a value of p significant bits
fp_nat(a, p) == fp_round(FALSE, a, 0, FALSE, p)

\* a * b
fp_mul(a, b, p) == fp_round(a.neg # b.neg, mul(a.m, b.m), a.e + b.e, FALSE, p)

\* x * 2^e + y * 2^e, each negated when its sign says so
fp_sum(xneg, x, yneg, y, e, p) ==
    IF xneg # yneg /\ x = y THEN [neg |-> FALSE, m |-> <<>>, e |-> 0]
    ELSE fp_round(IF xneg = yneg \/ ~less(x, y) THEN xneg ELSE yneg,
                  IF xneg = yneg THEN add(x, y)
                  ELSE IF less(x, y) THEN sub(y, x) ELSE sub(x, y),
                  e, FALSE, p)

\* a + b with both mantissas brought to the exponent e
fp_add_at(a, b, e, p) ==
    fp_sum(a.neg, shl(a.m, a.e - e), b.neg, shl(b.m, b.e - e), e, p)

\* a + b
fp_add(a, b, p) == fp_add_at(a, b, Min(a.e, b.e), p)

\* the number whose bits are the sequence q, most significant first
of_bits(q) ==
    LET at(t) == IF t < Len(q) THEN q[Len(q) - t] ELSE 0
    IN  norm([k \in 1 .. ((Len(q) + 7) \div 8) |->
                 at(8 * k - 8) + 2 * at(8 * k - 7) + 4 * at(8 * k - 6) + 8 * at(8 * k - 5)
                     + 16 * at(8 * k - 4) + 32 * at(8 * k - 3) + 64 * at(8 * k - 2)
                     + 128 * at(8 * k - 1)])

\* the division of n by d # 0, bit after bit from bit i of n down: q holds
\* the bits of the quotient and r the remainder of the bits of n above i
RECURSIVE div_from(_, _, _, _, _)
div_from(n, d, i, q, r) ==
    IF i < 0 THEN [q |-> of_bits(q), r |-> r]
    ELSE LET r2 == add(add(r, r), nat(bit(n, i)))
         IN  IF less(r2, d)
             THEN div_from(n, d, i - 1, Append(q, 0), r2)
             ELSE div_from(n, d, i - 1, Append(q, 1), sub(r2, d))

\* quotient and remainder of n by d, the bits of n above bit i being fewer
\* than those of d
div_at(n, d, i) == div_from(n, d, i, <<>>, shr(n, i + 1))
div(n, d) == div_at(n, d, bits(n) - bits(d))

\* the quotient qr.q (and a remainder qr.r) times 2^e, rounded once
fp_quotient(neg, qr, e, p) == fp_round(neg, qr.q, e, qr.r # <<>>, p)

\* a / b with the mantissa of a shifted by k bits
fp_div_by(a, b, k, p) ==
    fp_quotient(a.neg # b.neg, div(shl(a.m, k), b.m), a.e - b.e - k, p)

\* a / b for b # 0: the quotient of the mantissas with at least p + 2 bits,
\* rounded once
fp_div(a, b, p) == fp_div_by(a, b, Max(0, p + 2 + bits(b.m) - bits(a.m)), p)

\* the decimal literal num / den, den > 0: the nearest value
fp_dec(num, den, p) ==
    fp_div(fp_exact(num < 0, nat(IF num < 0 THEN -num ELSE num), 0),
           fp_exact(FALSE, nat(den), 0), p)

\* |a| < |b|, the mantissas brought to the exponent e
fp_below_at(a, b, e) == less(shl(a.m, a.e - e), shl(b.m, b.e - e))
fp_below(a, b) == fp_below_at(a, b, Min(a.e, b.e))

\* a < b
fp_lt(a, b) ==
    IF a.neg # b.neg THEN a.neg /\ (a.m # <<>> \/ b.m # <<>>)
    ELSE fp_below(IF a.neg THEN b ELSE a, IF a.neg THEN a ELSE b)

\* f64::max
fp_max(a, b) == IF fp_lt(a, b) THEN b ELSE a

\* f64::clamp(lo, hi)
fp_clamp(x, lo, hi) == IF fp_lt(x, lo) THEN lo ELSE IF fp_lt(hi, x) THEN hi ELSE x

\* f64::round: the nearest integer, halves away from zero
fp_round_int(a) ==
    IF a.e >= 0 THEN a
    ELSE fp_exact(a.neg, nearest_even(shr(a.m, -a.e), bit(a.m, -a.e - 1) = 1, TRUE), 0)

\* the integer part of |a|, as a number
fp_trunc(a) == IF a.e >= 0 THEN shl(a.m, a.e) ELSE shr(a.m, -a.e)

\* `a as usize`: the fraction is dropped, a negative value gives 0
fp_to_usize(a) == IF a.neg THEN 0 ELSE int(fp_trunc(a))

\* `a as u8`: the fraction is dropped, the value saturates at 0 and 255
fp_to_u8(a) ==
    IF a.neg THEN 0
    ELSE IF bits(a.m) + a.e > 8 THEN 255
    ELSE int(fp_trunc(a))

(***************************************************************************)
(* AnimationController (animation.rs).                                     *)
(***************************************************************************)
LoopModes == {"Once", "Loop"}
AnimationStates == {"Stopped", "Playing", "Finished"}

\* the f64 literals 0.0, 1.0 and 0.01
Zero == [neg |-> FALSE, m |-> <<>>, e |-> 0]
One == [neg |-> FALSE, m |-> <<1>>, e |-> 0]
Hundredth == fp_dec(1, 100, F64)

\* AnimationController::new(fps)
new(f) ==
    [current_frame |-> 0, frame_count |-> 0, fps |-> Max(f, 1),
     state |-> "Stopped", loop_mode |-> "Loop",
     range_start |-> Zero, range_end |-> One]

\* (x * max_idx).round() as usize
round_scaled(x, max_idx) ==
    fp_to_usize(fp_round_int(fp_mul(x, fp_int(max_idx, F64), F64)))

\* the two assignments of set_range(s, e): start.clamp(0.0, 1.0) and
\* end.clamp(0.0, 1.0).max(self.range_start + 0.01)
stored_from(rs, e) ==
    [range_start |-> rs,
     range_end |-> fp_max(fp_clamp(e, Zero, One), fp_add(rs, Hundredth, F64))]
stored_range(s, e) == stored_from(fp_clamp(s, Zero, One), e)

\* (start as f64 + percentage.clamp(0.0, 1.0) * range_len).round() as usize
\* with range_len = (end - start) as f64
seek_target(percentage, start, end) ==
    fp_to_usize(fp_round_int(
        fp_add(fp_int(start, F64),
               fp_mul(fp_clamp(percentage, Zero, One), fp_int(end - start, F64), F64),
               F64)))

\* (current_frame as f64 - start as f64) / range_len, for q.num the
\* difference and q.den the range_len, both whole
quotient(q) == fp_div(fp_int(q.num, F64), fp_int(q.den, F64), F64)

(***************************************************************************)
(* Inputs of the controller's operations.                                  *)
(***************************************************************************)
FrameCounts == 0 .. MaxFrames
FrameInputs == 0 .. (MaxFrames + 1)
FpsInputs == {0, 24}
\* the frame counts of longer animations (test_range uses 100)
LongFrameCounts == {51, 100}
\* the f64 literals -0.5, 0.0, 0.06, 0.25, 0.29, 0.5, 0.75, 1.0, 1.5
RangeInputs == {fp_dec(h, 100, F64) : h \in {-50, 0, 6, 25, 29, 50, 75, 100, 150}}

(***************************************************************************)
(* The arithmetic above over the inputs drawn, computed once: an operation *)
(* takes its value from these tables and computes it for any other input.  *)
(***************************************************************************)
\* the value the table T holds for the key k, else v
lookup(T, k, v) == IF k \in DOMAIN T THEN T[k] ELSE v

\* the values a table holds
values(T) == {T[k] : k \in DOMAIN T}

StoredRanges == [x \in RangeInputs, y \in RangeInputs |-> stored_range(x, y)]

\* the ranges a controller can hold, and their bounds
Ranges == {[range_start |-> Zero, range_end |-> One]} \cup values(StoredRanges)
bounds(R) == {r.range_start : r \in R} \cup {r.range_end : r \in R}

\* frame_count - 1 of the frame counts above zero
MaxIdxs == {n - 1 : n \in (FrameCounts \cup LongFrameCounts) \ {0}}

RoundScaled == [x \in bounds(Ranges), n \in MaxIdxs |-> round_scaled(x, n)]

\* the pairs (start_frame, end_frame) of the ranges R, by the table T
frame_pairs(T, R) ==
    {<<T[<<r.range_start, n>>], T[<<r.range_end, n>>]>> : r \in R, n \in MaxIdxs}

\* the positions inside the ranges of short animations
Quotients ==
    [q \in {[num |-> n, den |-> d] : n \in 0 .. MaxFrames, d \in 1 .. MaxFrames}
        |-> quotient(q)]

SeekTargets ==
    [p \in RangeInputs \cup values(Quotients), r \in frame_pairs(RoundScaled, Ranges)
        |-> seek_target(p, r[1], r[2])]

\* round_scaled, stored_range, seek_target and quotient through the tables
scaled(x, max_idx) == lookup(RoundScaled, <<x, max_idx>>, round_scaled(x, max_idx))
range_of(s, e) == lookup(StoredRanges, <<s, e>>, stored_range(s, e))
target_of(percentage, start, end) ==
    lookup(SeekTargets, <<percentage, <<start, end>>>>,
           seek_target(percentage, start, end))
f64_of(q) == lookup(Quotients, q, quotient(q))

\* range_frames(): (start, end) as a record
range_frames(c) ==
    IF c.frame_count = 0
    THEN [start |-> 0, end |-> 0]
    ELSE [start |-> scaled(c.range_start, c.frame_count - 1),
          end   |-> scaled(c.range_end, c.frame_count - 1)]

\* range_frame_count(): end.saturating_sub(start) + 1
frames_in(r) == Max(r.end - r.start, 0) + 1
range_frame_count(c) == frames_in(range_frames(c))

\* set_frame_count() with a slip: current_frame is not clamped
set_frame_count_no_clamp(c, count) == [c EXCEPT !.frame_count = count]

set_frame_count(c, count) ==
    LET c1 == [c EXCEPT !.frame_count = count]
    IN  IF c.current_frame >= count /\ count > 0
        THEN [c1 EXCEPT !.current_frame = count - 1]
        ELSE c1

\* set_fps() with a slip: the rate is stored as given
set_fps_raw(c, f) == [c EXCEPT !.fps = f]

set_fps(c, f) == [c EXCEPT !.fps = Max(f, 1)]

\* interval_ms() with a slip: the quotient is rounded to the nearest integer
interval_ms_round(c) == Max(Round(1000, c.fps), 1)

\* (1000.0 / fps as f64).max(1.0) as u32: the cast truncates
interval_ms(c) == Max(1000 \div c.fps, 1)

set_loop_mode(c, mode) ==
    LET c1 == [c EXCEPT !.loop_mode = mode]
    IN  IF mode = "Loop" /\ c.state = "Finished"
        THEN [c1 EXCEPT !.state = "Stopped"]
        ELSE c1

\* set_range(): the two assignments, sr being the range stored
with_range(c, sr) ==
    [c EXCEPT !.range_start = sr.range_start, !.range_end = sr.range_end]

\* set_range(): "Clamp current frame to range", r being range_frames()
snap_into(c, r) ==
    IF c.current_frame < r.start \/ c.current_frame > r.end
    THEN [c EXCEPT !.current_frame = r.start]
    ELSE c
snap(c) == snap_into(c, range_frames(c))

\* set_range() with a slip: current_frame is left where it was
set_range_no_snap(c, s, e) == with_range(c, range_of(s, e))

set_range(c, s, e) == snap(with_range(c, range_of(s, e)))

\* play() with a slip: a finished playback is started again
play_unguarded(c) ==
    IF c.frame_count > 0
    THEN [c EXCEPT !.state = "Playing"]
    ELSE c

play(c) ==
    IF c.frame_count > 0 /\ c.state # "Finished"
    THEN [c EXCEPT !.state = "Playing"]
    ELSE c

pause(c) ==
    IF c.state = "Playing" THEN [c EXCEPT !.state = "Stopped"] ELSE c

toggle(c) ==
    CASE c.state = "Playing"  -> pause(c)
      [] c.state = "Stopped"  -> play(c)
      [] c.state = "Finished" ->
            [c EXCEPT !.current_frame = range_frames(c).start,
                      !.state = "Playing"]

stop(c) ==
    [c EXCEPT !.state = "Stopped", !.current_frame = range_frames(c).start]

\* current_frame = frame.max(start).min(end), r being range_frames()
frame_within(c, frame, r) ==
    [c EXCEPT !.current_frame = Min(Max(frame, r.start), r.end)]

set_current_frame(c, frame) ==
    IF c.frame_count = 0
    THEN [c EXCEPT !.current_frame = 0]
    ELSE frame_within(c, frame, range_frames(c))

\* seek(): the target and its clamp, r being range_frames()
seek_within(c, percentage, r) ==
    frame_within(c, target_of(percentage, r.start, r.end), r)

\* seek() with a slip: the target is truncated, not rounded
seek_floor(c, percentage) ==
    IF c.frame_count = 0
    THEN c
    ELSE LET r == range_frames(c)
             range_len == fp_int(r.end - r.start, F64)
             target == fp_to_usize(
                           fp_add(fp_int(r.start, F64),
                                  fp_mul(fp_clamp(percentage, Zero, One), range_len, F64),
                                  F64))
         IN  [c EXCEPT !.current_frame = Min(Max(target, r.start), r.end)]

seek(c, percentage) ==
    IF c.frame_count = 0
    THEN c
    ELSE seek_within(c, percentage, range_frames(c))

\* position(): the two whole f64 values whose quotient is returned, or 0 / 1
\* for the 0.0 of a range of one frame, r being range_frames()
position_in(c, r) ==
    IF r.end <= r.start
    THEN [num |-> 0, den |-> 1]
    ELSE [num |-> c.current_frame - r.start, den |-> r.end - r.start]

\* position() with a slip: the range start is not subtracted
position_from_zero(c) ==
    LET r == range_frames(c)
    IN  IF r.end <= r.start
        THEN [num |-> 0, den |-> 1]
        ELSE [num |-> c.current_frame, den |-> r.end - r.start]

position(c) == position_in(c, range_frames(c))

\* tick() of a playing controller with frames, r being range_frames()
tick_in(c, r) ==
    IF c.current_frame < r.start
    THEN [ctrl |-> [c EXCEPT !.current_frame = r.start], ret |-> TRUE]
    ELSE IF c.current_frame >= r.end
    THEN IF c.loop_mode = "Loop"
         THEN [ctrl |-> [c EXCEPT !.current_frame = r.start], ret |-> TRUE]
         ELSE [ctrl |-> [c EXCEPT !.state = "Finished"], ret |-> FALSE]
    ELSE [ctrl |-> [c EXCEPT !.current_frame = c.current_frame + 1], ret |-> TRUE]

\* tick() with a slip: finishing under Once also rewinds to the range start
tick_rewind(c) ==
    IF c.state = "Playing" /\ c.frame_count > 0 /\ c.loop_mode = "Once"
       /\ c.current_frame >= range_frames(c).start
       /\ c.current_frame >= range_frames(c).end
    THEN [ctrl |-> [c EXCEPT !.state = "Finished",
                             !.current_frame = range_frames(c).start],
          ret |-> FALSE]
    ELSE IF c.state # "Playing" \/ c.frame_count = 0
    THEN [ctrl |-> c, ret |-> FALSE]
    ELSE LET r == range_frames(c)
         IN  IF c.current_frame < r.start \/ c.current_frame >= r.end
             THEN [ctrl |-> [c EXCEPT !.current_frame = r.start], ret |-> TRUE]
             ELSE [ctrl |-> [c EXCEPT !.current_frame = c.current_frame + 1],
                   ret |-> TRUE]

\* tick() with a slip: the end test is `>` instead of `>=`
tick_past_end(c) ==
    IF c.state # "Playing" \/ c.frame_count = 0
    THEN [ctrl |-> c, ret |-> FALSE]
    ELSE LET r == range_frames(c)
         IN  IF c.current_frame < r.start
             THEN [ctrl |-> [c EXCEPT !.current_frame = r.start], ret |-> TRUE]
             ELSE IF c.current_frame > r.end
             THEN IF c.loop_mode = "Loop"
                  THEN [ctrl |-> [c EXCEPT !.current_frame = r.start], ret |-> TRUE]
                  ELSE [ctrl |-> [c EXCEPT !.state = "Finished"], ret |-> FALSE]
             ELSE [ctrl |-> [c EXCEPT !.current_frame = c.current_frame + 1],
                   ret |-> TRUE]

\* tick() with a slip: Loop wraps to frame 0 instead of the range start
tick_wrap_zero(c) ==
    IF c.state # "Playing" \/ c.frame_count = 0
    THEN [ctrl |-> c, ret |-> FALSE]
    ELSE LET r == range_frames(c)
         IN  IF c.current_frame < r.start
             THEN [ctrl |-> [c EXCEPT !.current_frame = r.start], ret |-> TRUE]
             ELSE IF c.current_frame >= r.end
             THEN IF c.loop_mode = "Loop"
                  THEN [ctrl |-> [c EXCEPT !.current_frame = 0], ret |-> TRUE]
                  ELSE [ctrl |-> [c EXCEPT !.state = "Finished"], ret |-> FALSE]
             ELSE [ctrl |-> [c EXCEPT !.current_frame = c.current_frame + 1],
                   ret |-> TRUE]

\* tick() with a slip: the end of the range finishes the playback under Loop too
tick_finish_any(c) ==
    IF c.state # "Playing" \/ c.frame_count = 0
    THEN [ctrl |-> c, ret |-> FALSE]
    ELSE LET r == range_frames(c)
         IN  IF c.current_frame < r.start
             THEN [ctrl |-> [c EXCEPT !.current_frame = r.start], ret |-> TRUE]
             ELSE IF c.current_frame >= r.end
             THEN [ctrl |-> [c EXCEPT !.state = "Finished"], ret |-> FALSE]
             ELSE [ctrl |-> [c EXCEPT !.current_frame = c.current_frame + 1],
                   ret |-> TRUE]

\* tick(): the controller after the call and the value returned
tick(c) ==
    IF c.state # "Playing" \/ c.frame_count = 0
    THEN [ctrl |-> c, ret |-> FALSE]
    ELSE tick_in(c, range_frames(c))

\* step_forward() after its pause(), r being range_frames()
forward_in(c, r) ==
    [c EXCEPT !.current_frame =
        IF c.current_frame >= r.end THEN r.start ELSE c.current_frame + 1]

\* step_forward() with a slip: the wrap goes to frame 0, not to the range start
step_forward_wrap_zero(c) ==
    IF c.frame_count = 0
    THEN c
    ELSE LET c1 == pause(c)
             r  == range_frames(c1)
         IN  [c1 EXCEPT !.current_frame =
                 IF c1.current_frame >= r.end THEN 0
                 ELSE c1.current_frame + 1]

step_forward(c) ==
    IF c.frame_count = 0
    THEN c
    ELSE forward_in(pause(c), range_frames(pause(c)))

\* step_backward() after its pause(), r being range_frames()
backward_in(c, r) ==
    [c EXCEPT !.current_frame =
        IF c.current_frame <= r.start THEN r.end ELSE c.current_frame - 1]

step_backward(c) ==
    IF c.frame_count = 0
    THEN c
    ELSE backward_in(pause(c), range_frames(pause(c)))

\* AnimationController::reset()
ctrl_reset(c) ==
    [c EXCEPT !.current_frame = 0, !.state = "Stopped",
              !.range_start = Zero, !.range_end = One]

(***************************************************************************)
(* The calls of the controller's operations.                               *)
(***************************************************************************)
\* the loader side is untouched by the controller's operations
LoaderIdle ==
    UNCHANGED <<ls, pc, files, idx, lframes, result, log, build, input, canvas, parsed, text>>

\* The consecutive-tick counter after an operation other than tick(): 0 when
\* the operation leaves the controller Playing at the start of its range (a
\* playback run starts here), -1 otherwise.
RunStart(c) ==
    IF c.frame_count > 0 /\ c.state = "Playing"
       /\ c.current_frame = range_frames(c).start
    THEN 0 ELSE -1

\* got when the last operation returned no number
NoValue == [num |-> 0, den |-> 1]

\* an operation other than tick(): c is the controller it leaves
Apply(name, c) ==
    /\ ctrl' = c
    /\ op' = name
    /\ ret' = FALSE
    /\ got' = NoValue
    /\ ticks' = RunStart(c)
    /\ LoaderIdle

SetFrameCount == \E n \in FrameCounts : Apply("set_frame_count", set_frame_count(ctrl, n))
SetFps == \E f \in FpsInputs : Apply("set_fps", set_fps(ctrl, f))
SetLoopMode == \E m \in LoopModes : Apply("set_loop_mode", set_loop_mode(ctrl, m))
SetRange == \E s \in RangeInputs, e \in RangeInputs : Apply("set_range", set_range(ctrl, s, e))
Play == Apply("play", play(ctrl))
Pause == Apply("pause", pause(ctrl))
Toggle == Apply("toggle", toggle(ctrl))
Stop == Apply("stop", stop(ctrl))
SetCurrentFrame == \E f \in FrameInputs : Apply("set_current_frame", set_current_frame(ctrl, f))
Seek == \E p \in RangeInputs : Apply("seek", seek(ctrl, p))
StepForward == Apply("step_forward", step_forward(ctrl))
StepBackward == Apply("step_backward", step_backward(ctrl))
CtrlReset == Apply("reset", ctrl_reset(ctrl))

\* set_frame_count of a longer animation
SetLongFrameCount ==
    \E n \in LongFrameCounts : Apply("set_frame_count", set_frame_count(ctrl, n))

\* position() is read: nothing changes
Position ==
    /\ ctrl' = ctrl
    /\ op' = "position"
    /\ ret' = FALSE
    /\ got' = position(ctrl)
    /\ ticks' = RunStart(ctrl)
    /\ LoaderIdle

\* the host seeks to the position it has just read: seek(position())
SeekPosition ==
    Apply("seek_position", seek(ctrl, f64_of(position(ctrl))))

\* frame rates 0 .. MaxFps and some large ones, up to the largest integer of
\* the checker
AllFps == (0 .. MaxFps) \cup {2000, 65536, 2147483647}
SetAnyFps == \E f \in AllFps : Apply("set_fps", set_fps(ctrl, f))

\* interval_ms() is read: nothing changes
IntervalMs ==
    /\ ctrl' = ctrl
    /\ op' = "interval_ms"
    /\ ret' = FALSE
    /\ got' = [num |-> interval_ms(ctrl), den |-> 1]
    /\ ticks' = RunStart(ctrl)
    /\ LoaderIdle

\* tick(), called by the host's timer
Tick ==
    /\ ctrl' = tick(ctrl).ctrl
    /\ ret' = tick(ctrl).ret
    /\ got' = NoValue
    /\ op' = "tick"
    /\ ticks' = IF ticks < 0 THEN -1 ELSE Min(ticks + 1, MaxTicks)
    /\ LoaderIdle

(***************************************************************************)
(* The .cframe decoder (parser.rs).                                        *)
(***************************************************************************)
HEADER_SIZE == 8

\* The builds of the crate: with or without overflow checks (the dev and
\* the release profile), for a target whose usize has 4 bytes (wasm32) or 8.
Builds == [overflow_checks : BOOLEAN, usize_bytes : {4, 8}]

\* a * b on usize of w bytes: the wrapped value, and whether it overflowed
usize_mul(a, b, w) ==
    LET full == norm(mul_from(a, b, 1, Len(a) + Len(b), 0))
    IN  [value |-> norm(SubSeq(full, 1, Min(Len(full), w))), overflow |-> Len(full) > w]

\* a + b on usize of w bytes
usize_add(a, b, w) ==
    LET full == norm(add_from(a, b, 1, Max(Len(a), Len(b)) + 1, 0))
    IN  [value |-> norm(SubSeq(full, 1, Min(Len(full), w))), overflow |-> Len(full) > w]

\* u32::from_le_bytes([data[at], data[at+1], data[at+2], data[at+3]]), `at` 0-based
u32_from_le_bytes(data, at) == norm(SubSeq(data, at + 1, at + 4))

\* no value is returned: the call panics (arithmetic overflow with overflow
\* checks, an index out of bounds) or aborts (a failed allocation)
Panic == [ok |-> FALSE, err |-> [kind |-> "Panic"]]

\* the size computation of both decoders on a header with width, height > 0:
\*   pixel_count = width as usize * height as usize;
\*   expected_size = HEADER_SIZE + pixel_count * 4
expected_size_of(width, height, b) ==
    LET pixel_count == usize_mul(width, height, b.usize_bytes)
        pixel_bytes == usize_mul(pixel_count.value, nat(4), b.usize_bytes)
        expected == usize_add(nat(HEADER_SIZE), pixel_bytes.value, b.usize_bytes)
    IN  [pixel_count |-> pixel_count.value,
         expected_size |-> expected.value,
         count_overflow |-> pixel_count.overflow,
         size_overflow |-> pixel_bytes.overflow \/ expected.overflow]

\* parse_cframe with a slip: a buffer longer than the announced size is refused
parse_cframe_exact(data, b) ==
    IF Len(data) < HEADER_SIZE
    THEN [ok |-> FALSE,
          err |-> [kind |-> "FileTooSmall", expected |-> nat(HEADER_SIZE),
                   actual |-> nat(Len(data))]]
    ELSE LET width  == u32_from_le_bytes(data, 0)
             height == u32_from_le_bytes(data, 4)
             e == expected_size_of(width, height, b)
         IN  IF width = nat(0) \/ height = nat(0)
             THEN [ok |-> FALSE,
                   err |-> [kind |-> "InvalidDimensions", width |-> width, height |-> height]]
             ELSE IF b.overflow_checks /\ (e.count_overflow \/ e.size_overflow)
             THEN Panic
             ELSE IF nat(Len(data)) # e.expected_size
             THEN [ok |-> FALSE,
                   err |-> [kind |-> "SizeMismatch", expected |-> e.expected_size,
                            actual |-> nat(Len(data))]]
             ELSE IF e.size_overflow
             THEN Panic
             ELSE LET pixel_count == int(e.pixel_count)
                  IN  [ok |-> TRUE,
                       val |-> [width |-> width, height |-> height,
                                chars |-> [i \in 1 .. pixel_count |->
                                              data[HEADER_SIZE + (i - 1) * 4 + 1]],
                                rgb |-> [j \in 1 .. (pixel_count * 3) |->
                                              data[HEADER_SIZE + ((j - 1) \div 3) * 4
                                                   + 1 + ((j - 1) % 3) + 1]]]]

\* parse_cframe(data) as built by b: Result<CFrameData, ParseError>
parse_cframe_on(data, b) ==
    IF Len(data) < HEADER_SIZE
    THEN [ok |-> FALSE,
          err |-> [kind |-> "FileTooSmall", expected |-> nat(HEADER_SIZE),
                   actual |-> nat(Len(data))]]
    ELSE LET width  == u32_from_le_bytes(data, 0)
             height == u32_from_le_bytes(data, 4)
             e == expected_size_of(width, height, b)
         IN  IF width = nat(0) \/ height = nat(0)
             THEN [ok |-> FALSE,
                   err |-> [kind |-> "InvalidDimensions", width |-> width, height |-> height]]
             ELSE IF b.overflow_checks /\ (e.count_overflow \/ e.size_overflow)
             THEN Panic
             ELSE IF less(nat(Len(data)), e.expected_size)
             THEN [ok |-> FALSE,
                   err |-> [kind |-> "SizeMismatch", expected |-> e.expected_size,
                            actual |-> nat(Len(data))]]
             \* the wrapped size let a short buffer pass: the vectors cannot be
             \* allocated, or the loop reads beyond the buffer
             ELSE IF e.size_overflow
             THEN Panic
             ELSE LET pixel_count == int(e.pixel_count)
                  IN  [ok |-> TRUE,
                       val |-> [width |-> width, height |-> height,
                                chars |-> [i \in 1 .. pixel_count |->
                                              data[HEADER_SIZE + (i - 1) * 4 + 1]],
                                rgb |-> [j \in 1 .. (pixel_count * 3) |->
                                              data[HEADER_SIZE + ((j - 1) \div 3) * 4
                                                   + 1 + ((j - 1) % 3) + 1]]]]

\* parse_cframe_text(data) as built by b: Result<String, ParseError>; the text
\* is the sequence of its chars, '\n' being 10
parse_cframe_text_on(data, b) ==
    IF Len(data) < HEADER_SIZE
    THEN [ok |-> FALSE,
          err |-> [kind |-> "FileTooSmall", expected |-> nat(HEADER_SIZE),
                   actual |-> nat(Len(data))]]
    ELSE LET width  == u32_from_le_bytes(data, 0)
             height == u32_from_le_bytes(data, 4)
             e == expected_size_of(width, height, b)
         IN  IF width = nat(0) \/ height = nat(0)
             THEN [ok |-> FALSE,
                   err |-> [kind |-> "InvalidDimensions", width |-> width, height |-> height]]
             ELSE IF b.overflow_checks /\ (e.count_overflow \/ e.size_overflow)
             THEN Panic
             ELSE IF less(nat(Len(data)), e.expected_size)
             THEN [ok |-> FALSE,
                   err |-> [kind |-> "SizeMismatch", expected |-> e.expected_size,
                            actual |-> nat(Len(data))]]
             \* the loops run over height rows of width columns: with a wrapped
             \* size they read beyond the buffer
             ELSE IF e.count_overflow \/ e.size_overflow
             THEN Panic
             ELSE LET w == int(width)
                      h == int(height)
                  IN  [ok |-> TRUE,
                       val |-> [k \in 1 .. (h * (w + 1)) |->
                                   LET row == (k - 1) \div (w + 1)
                                       col == (k - 1) % (w + 1)
                                   IN  IF col = w THEN 10
                                       ELSE data[HEADER_SIZE + (row * w + col) * 4 + 1]]]

\* the two decoders in the build at hand
parse_cframe(data) == parse_cframe_on(data, build)
parse_cframe_text(data) == parse_cframe_text_on(data, build)

\* Result::ok(): Some(value) or None
result_ok(r) == IF r.ok THEN <<r.val>> ELSE <<>>

(***************************************************************************)
(* Frame and FrameFile (data.rs).                                          *)
(***************************************************************************)
\* Frame::text_only(content)
text_only(content) == [content |-> content, cframe |-> <<>>]

\* Frame::has_color()
has_color(f) == f.cframe # <<>>

\* the names of the frame files a provider may list
PathPool ==
    <<"frame_0001.txt", "frame_0002.txt", "frame_0003.txt", "frame_0004.txt",
      "frame_0005.txt", "frame_0006.txt">>

\* FrameFile::new(path, name, index)
FrameFile(i) == [path |-> PathPool[i], name |-> PathPool[i], index |-> i]

(***************************************************************************)
(* LoadingProgress and FrameLoaderState (loader.rs).                       *)
(***************************************************************************)
LoadingPhases == {"Idle", "LoadingText", "LoadingColors", "Complete"}

\* LoadingProgress::new()
progress_new == [text_loaded |-> 0, text_total |-> 0, color_loaded |-> 0, color_total |-> 0]

\* LoadingProgress::reset(total)
progress_reset(p, total) ==
    [text_loaded |-> 0, text_total |-> total, color_loaded |-> 0, color_total |-> total]

\* ((loaded as f32 / total as f32) * 100.0) as u8, for total > 0
percent_f32(loaded, total) ==
    fp_to_u8(fp_mul(fp_div(fp_int(loaded, F32), fp_int(total, F32), F32),
                    fp_int(100, F32), F32))

\* the percentages of the counters a loader state reaches below, computed
\* once
Percents ==
    [loaded \in 0 .. (MaxFiles + 1), total \in 1 .. MaxFiles |-> percent_f32(loaded, total)]

\* percent_f32 through the table
percent_of(loaded, total) ==
    IF loaded \in 0 .. (MaxFiles + 1) /\ total \in 1 .. MaxFiles
    THEN Percents[loaded, total] ELSE percent_f32(loaded, total)

\* LoadingProgress::text_percent()
text_percent(p) ==
    IF p.text_total = 0 THEN 0 ELSE percent_of(p.text_loaded, p.text_total)

\* LoadingProgress::color_percent()
color_percent(p) ==
    IF p.color_total = 0 THEN 0 ELSE percent_of(p.color_loaded, p.color_total)

text_complete(p) == p.text_total > 0 /\ p.text_loaded >= p.text_total

color_complete(p) == p.color_total > 0 /\ p.color_loaded >= p.color_total

\* FrameLoaderState::new()
loader_new ==
    [phase |-> "Idle", progress |-> progress_new, frames |-> <<>>,
     frame_paths |-> <<>>, error |-> <<>>]

\* FrameLoaderState::reset()
loader_reset(s) ==
    [phase |-> "Idle", progress |-> progress_new, frames |-> <<>>,
     frame_paths |-> <<>>, error |-> <<>>]

\* start_loading() with a slip: the state of the previous session is kept
start_loading_keep(s, frame_files) ==
    [s EXCEPT !.phase = "LoadingText",
              !.progress = progress_reset(s.progress, Len(frame_files)),
              !.frame_paths = [i \in 1 .. Len(frame_files) |-> frame_files[i].path]]

start_loading(s, frame_files) ==
    LET s1 == loader_reset(s)
    IN  [s1 EXCEPT !.phase = "LoadingText",
                   !.progress = progress_reset(s1.progress, Len(frame_files)),
                   !.frame_paths = [i \in 1 .. Len(frame_files) |-> frame_files[i].path]]

add_text_frame(s, content) ==
    [s EXCEPT !.frames = Append(s.frames, text_only(content)),
              !.progress.text_loaded = s.progress.text_loaded + 1]

\* finish_text_loading() with a slip: the empty case is not treated as a failure
finish_text_loading_unchecked(s) == [s EXCEPT !.phase = "LoadingColors"]

finish_text_loading(s) ==
    IF s.frames = <<>>
    THEN [s EXCEPT !.error = <<"No frames found">>, !.phase = "Idle"]
    ELSE [s EXCEPT !.phase = "LoadingColors"]

\* set_frame_color() with a slip: the other frames lose their color data
set_frame_color_only(s, index, cframe) ==
    LET s0 == [s EXCEPT !.frames = [i \in 1 .. Len(s.frames) |-> text_only(s.frames[i].content)]]
        s1 == IF index < Len(s.frames)
              THEN [s0 EXCEPT !.frames[index + 1].cframe = <<cframe>>]
              ELSE s0
        s2 == [s1 EXCEPT !.progress.color_loaded = s1.progress.color_loaded + 1]
    IN  IF color_complete(s2.progress)
        THEN [s2 EXCEPT !.phase = "Complete"]
        ELSE s2

\* index is 0-based, as in the source
set_frame_color(s, index, cframe) ==
    LET s1 == IF index < Len(s.frames)
              THEN [s EXCEPT !.frames[index + 1].cframe = <<cframe>>]
              ELSE s
        s2 == [s1 EXCEPT !.progress.color_loaded = s1.progress.color_loaded + 1]
    IN  IF color_complete(s2.progress)
        THEN [s2 EXCEPT !.phase = "Complete"]
        ELSE s2

\* skip_frame_color() with a slip: the completion check is left out
skip_frame_color_no_check(s) ==
    [s EXCEPT !.progress.color_loaded = s.progress.color_loaded + 1]

skip_frame_color(s) ==
    LET s2 == [s EXCEPT !.progress.color_loaded = s.progress.color_loaded + 1]
    IN  IF color_complete(s2.progress)
        THEN [s2 EXCEPT !.phase = "Complete"]
        ELSE s2

set_error(s, error) == [s EXCEPT !.error = <<error>>, !.phase = "Idle"]

can_play(s) ==
    s.frames # <<>> /\ (s.phase = "LoadingColors" \/ s.phase = "Complete")

has_any_color(s) == \E i \in 1 .. Len(s.frames) : has_color(s.frames[i])

\* get_frame(index) and get_frame_path(index), index 0-based
get_frame(s, index) == IF index < Len(s.frames) THEN <<s.frames[index + 1]>> ELSE <<>>
get_frame_path(s, index) ==
    IF index < Len(s.frame_paths) THEN <<s.frame_paths[index + 1]>> ELSE <<>>

(***************************************************************************)
(* Inputs of the loader's operations.                                      *)
(***************************************************************************)
\* file lists: the first n files of the pool, and the first two swapped
FileLists ==
    {[i \in 1 .. n |-> FrameFile(i)] : n \in 0 .. MaxFiles}
        \cup {<<FrameFile(2), FrameFile(1)>>}
Contents == {"A", "B"}
\* width 1, height 1, 'A' in red: a well-formed buffer
BytesRed == <<1, 0, 0, 0, 1, 0, 0, 0, 65, 255, 0, 0>>
\* width 2, height 1, "AB" in red and green, and one trailing byte
BytesTwo == <<2, 0, 0, 0, 1, 0, 0, 0, 65, 255, 0, 0, 66, 0, 255, 0, 7>>
\* three bytes: shorter than the header
BytesShort == <<1, 2, 3>>
\* width 0
BytesZero == <<0, 0, 0, 0, 1, 0, 0, 0>>
\* width 2, height 2 announced, one pixel present
BytesCut == <<2, 0, 0, 0, 2, 0, 0, 0, 65, 255, 0, 0>>
\* width = height = 2^31 and no pixel: the size 8 + width*height*4 does not
\* fit usize
BytesHuge == <<0, 0, 0, 128, 0, 0, 0, 128>>
\* decoded color data handed to set_frame_color
CFrames == {parse_cframe(BytesRed).val, parse_cframe(BytesTwo).val}
ErrorInputs == {"read failed"}

\* the controller and the loading task are untouched by FrameLoaderState calls
OthersIdle ==
    UNCHANGED <<ctrl, ret, ticks, pc, files, idx, lframes, result, log,
                build, input, canvas, parsed, text>>

\* a FrameLoaderState method call: s is the state it leaves
Call(name, s) ==
    /\ ls' = s
    /\ op' = name
    /\ got' = NoValue
    /\ OthersIdle

\* a percentage of the progress is read: nothing changes
Percent(name, v) ==
    /\ ls' = ls
    /\ op' = name
    /\ got' = [num |-> v, den |-> 1]
    /\ OthersIdle

StartLoading == \E fl \in FileLists : Call("start_loading", start_loading(ls, fl))
\* the text a host passes to add_text_frame
FrameTexts == {"A"}
AddTextFrame ==
    /\ Len(ls.frames) < MaxFiles
    /\ \E c \in FrameTexts : Call("add_text_frame", add_text_frame(ls, c))
FinishTextLoading == Call("finish_text_loading", finish_text_loading(ls))
SetFrameColor ==
    /\ ls.progress.color_loaded <= MaxFiles
    /\ \E i \in 0 .. MaxFiles, c \in CFrames :
          Call("set_frame_color", set_frame_color(ls, i, c))
SkipFrameColor ==
    /\ ls.progress.color_loaded <= MaxFiles
    /\ Call("skip_frame_color", skip_frame_color(ls))
SetError == \E e \in ErrorInputs : Call("set_error", set_error(ls, e))
LoaderReset == Call("reset", loader_reset(ls))
\* the totals a host passes to progress.reset
ResetTotals == 0 .. MaxFiles
\* progress.reset(total), called on the public field by the host
ProgressReset ==
    \E n \in ResetTotals :
       Call("progress_reset", [ls EXCEPT !.progress = progress_reset(ls.progress, n)])
TextPercent == Percent("text_percent", text_percent(ls.progress))
ColorPercent == Percent("color_percent", color_percent(ls.progress))

(***************************************************************************)
(* Inputs of the decoders, and their calls.                                *)
(***************************************************************************)
\* header fields: 0, 1, 2, 3, 2^14, 2^16, 2^31 and 2^31 + 1
Dims ==
    {<<0, 0, 0, 0>>, <<1, 0, 0, 0>>, <<2, 0, 0, 0>>, <<3, 0, 0, 0>>, <<0, 64, 0, 0>>,
     <<0, 0, 1, 0>>, <<0, 0, 0, 128>>, <<1, 0, 0, 128>>}

\* n bytes of pixel records: the characters 'A', 'B', ... with varying colors
Body(n) == [i \in 1 .. n |-> IF (i - 1) % 4 = 0 THEN 65 + (i - 1) \div 4 ELSE (i * 37) % 256]

\* test_parse_cframe: 2 x 2, "ABCD" in red, green, blue and gray
BytesTest ==
    <<2, 0, 0, 0, 2, 0, 0, 0, 65, 255, 0, 0, 66, 0, 255, 0, 67, 0, 0, 255,
      68, 128, 128, 128>>

\* buffers shorter than the header, every header over Dims followed by up to
\* MaxBody bytes, and the buffers named above
Buffers ==
    {SubSeq(BytesTest, 1, n) : n \in 0 .. (HEADER_SIZE - 1)}
        \cup {w \o h \o Body(n) : w \in Dims, h \in Dims, n \in 0 .. MaxBody}
        \cup {BytesRed, BytesTwo, BytesShort, BytesZero, BytesCut, BytesTest}

\* everything but the decoders' results is untouched by a decoder call
DecoderIdle ==
    UNCHANGED <<ctrl, ret, got, ticks, ls, pc, files, idx, lframes, result, log, build, input, canvas>>

ParseCFrame ==
    /\ parsed' = <<parse_cframe(input)>>
    /\ op' = "parse_cframe"
    /\ UNCHANGED text
    /\ DecoderIdle

ParseCFrameText ==
    /\ text' = <<parse_cframe_text(input)>>
    /\ op' = "parse_cframe_text"
    /\ UNCHANGED parsed
    /\ DecoderIdle

(***************************************************************************)
(* The data provider and the two loading functions (loader.rs).            *)
(* A provider call is an await point; what it returns is chosen here.      *)
(***************************************************************************)
Ok(v) == [ok |-> TRUE, val |-> v, err |-> ""]
Err(e) == [ok |-> FALSE, val |-> <<>>, err |-> e]

\* get_frame_files: a provider error or a file list
ListResults == {Err("list failed")} \cup {Ok(fl) : fl \in FileLists}
\* read_frame_text: a provider error or the text
TextResults == {Err("text read failed")} \cup {Ok(c) : c \in Contents}
\* read_cframe_bytes: a provider error, no .cframe file, or its bytes
ColorResults ==
    {Err("cframe read failed"), Ok(<<>>)}
        \cup {Ok(<<b>>) : b \in {BytesRed, BytesTwo, BytesShort, BytesZero, BytesCut,
                                  BytesHuge}}

\* load_text_frames with a slip: the empty file list is not refused
after_list_unchecked(r) == IF ~r.ok THEN <<Err(r.err)>> ELSE <<>>

\* load_text_frames after get_frame_files: Some(what it returns at once), or
\* None when it goes on to read the files
after_list(r) ==
    IF ~r.ok THEN <<Err(r.err)>>
    ELSE IF r.val = <<>> THEN <<Err("No frames found in directory")>>
    ELSE <<>>

\* parse_cframe(&bytes) panicked or aborted: load_color_frames does not go on
crashes(r) == r.ok /\ r.val # <<>> /\ parse_cframe(r.val[1]) = Panic

\* load_color_frames with a slip: a provider error is taken for a missing file
decode_lenient(r) ==
    IF ~r.ok \/ r.val = <<>> THEN [stop |-> FALSE, err |-> "", cframe |-> <<>>, panic |-> FALSE]
    ELSE IF crashes(r) THEN [stop |-> TRUE, err |-> "", cframe |-> <<>>, panic |-> TRUE]
    ELSE [stop |-> FALSE, err |-> "", cframe |-> result_ok(parse_cframe(r.val[1])),
          panic |-> FALSE]

\* load_color_frames on the result of read_cframe_bytes: `?` returns a
\* provider error; bytes are decoded, and a decode failure gives None; a
\* panic or abort inside parse_cframe ends the task without a result
decode(r) ==
    IF ~r.ok THEN [stop |-> TRUE, err |-> r.err, cframe |-> <<>>, panic |-> FALSE]
    ELSE IF r.val = <<>> THEN [stop |-> FALSE, err |-> "", cframe |-> <<>>, panic |-> FALSE]
    ELSE IF crashes(r) THEN [stop |-> TRUE, err |-> "", cframe |-> <<>>, panic |-> TRUE]
    ELSE [stop |-> FALSE, err |-> "", cframe |-> result_ok(parse_cframe(r.val[1])),
          panic |-> FALSE]

\* the on_frame callback of the session: store the color data or skip
on_frame(s, i, total, cframe) ==
    IF cframe # <<>> THEN set_frame_color(s, i, cframe[1]) ELSE skip_frame_color(s)

\* the controller and the decoders' buffer are untouched by the loading task
CtrlIdle == UNCHANGED <<ctrl, ret, got, ticks, build, input, canvas, parsed, text>>

\* the session begins: load_text_frames is called and awaits get_frame_files
LT_Call ==
    /\ pc = "idle"
    /\ pc' = "lt_list"
    /\ op' = "load_text_frames"
    /\ UNCHANGED <<ls, files, idx, lframes, result, log>>
    /\ CtrlIdle

\* get_frame_files returns
LT_List ==
    /\ pc = "lt_list"
    /\ \E r \in ListResults :
          /\ log' = Append(log, <<"get_frame_files", r>>)
          /\ files' = r.val
          /\ result' = after_list(r)
          /\ pc' = IF after_list(r) # <<>> THEN "lt_ret" ELSE "lt_read"
    /\ idx' = 0
    /\ lframes' = <<>>
    /\ op' = "get_frame_files"
    /\ UNCHANGED ls
    /\ CtrlIdle

\* read_frame_text returns for files[idx]
LT_Read ==
    /\ pc = "lt_read"
    /\ \E r \in TextResults :
          /\ log' = Append(log, <<"read_frame_text", files[idx + 1].path, r>>)
          /\ IF ~r.ok
             THEN /\ result' = <<Err(r.err)>>
                  /\ pc' = "lt_ret"
                  /\ UNCHANGED <<lframes, idx>>
             ELSE /\ lframes' = Append(lframes, text_only(r.val))
                  /\ idx' = idx + 1
                  /\ IF idx + 1 < Len(files)
                     THEN pc' = "lt_read" /\ UNCHANGED result
                     ELSE /\ pc' = "lt_ret"
                          /\ result' = <<Ok([frames |-> lframes', frame_files |-> files])>>
    /\ op' = "read_frame_text"
    /\ UNCHANGED <<ls, files>>
    /\ CtrlIdle

\* The caller takes the result of load_text_frames: an error is stored, a
\* success starts the loader's session with the file list.
D_Text ==
    /\ pc = "lt_ret"
    /\ IF ~result[1].ok
       THEN /\ ls' = set_error(ls, result[1].err)
            /\ op' = "set_error"
            /\ pc' = "done"
       ELSE /\ ls' = start_loading(ls, result[1].val.frame_files)
            /\ op' = "start_loading"
            /\ pc' = "d_add"
    /\ idx' = 0
    /\ UNCHANGED <<files, lframes, result, log>>
    /\ CtrlIdle

\* the caller hands the next text frame to the loader
D_Add ==
    /\ pc = "d_add"
    /\ ls' = add_text_frame(ls, result[1].val.frames[idx + 1].content)
    /\ op' = "add_text_frame"
    /\ idx' = idx + 1
    /\ pc' = IF idx + 1 < Len(result[1].val.frames) THEN "d_add" ELSE "d_finish"
    /\ UNCHANGED <<files, lframes, result, log>>
    /\ CtrlIdle

\* The caller ends phase 1, hands the frame count to the controller, starts
\* playback and calls load_color_frames.
D_Finish ==
    /\ pc = "d_finish"
    /\ ls' = finish_text_loading(ls)
    /\ op' = "finish_text_loading"
    /\ ctrl' = play(set_frame_count(ctrl, Len(ls.frames)))
    /\ ret' = FALSE
    /\ got' = NoValue
    /\ ticks' = RunStart(ctrl')
    /\ idx' = 0
    /\ result' = IF Len(files) = 0 THEN <<Ok(<<>>)>> ELSE <<>>
    /\ pc' = IF Len(files) = 0 THEN "lc_ret" ELSE "lc_yield1"
    /\ UNCHANGED <<files, lframes, log, build, input, canvas, parsed, text>>

\* the first yield_fn().await of entry idx completes
LC_Yield1 ==
    /\ pc = "lc_yield1"
    /\ log' = Append(log, <<"yield">>)
    /\ pc' = "lc_read"
    /\ op' = "yield"
    /\ UNCHANGED <<ls, files, idx, lframes, result>>
    /\ CtrlIdle

\* load_color_frames with a slip: no second yield after on_frame
LC_Read_no_yield ==
    /\ pc = "lc_read"
    /\ \E r \in ColorResults :
          LET d == decode(r)
              total == Len(files)
          IN  IF d.panic
              THEN /\ log' = Append(log, <<"read_cframe_bytes", files[idx + 1].path, r>>)
                   /\ pc' = "crashed"
                   /\ UNCHANGED <<ls, idx, result>>
              ELSE IF d.stop
              THEN /\ log' = Append(log, <<"read_cframe_bytes", files[idx + 1].path, r>>)
                   /\ result' = <<Err(d.err)>>
                   /\ pc' = "lc_ret"
                   /\ UNCHANGED <<ls, idx>>
              ELSE /\ log' = log \o <<<<"read_cframe_bytes", files[idx + 1].path, r>>,
                                      <<"on_frame", idx, total, d.cframe>>>>
                   /\ ls' = on_frame(ls, idx, total, d.cframe)
                   /\ idx' = idx + 1
                   /\ IF idx + 1 < total
                      THEN pc' = "lc_yield1" /\ UNCHANGED result
                      ELSE pc' = "lc_ret" /\ result' = <<Ok(<<>>)>>
    /\ op' = "read_cframe_bytes"
    /\ UNCHANGED <<files, lframes>>
    /\ CtrlIdle

\* read_cframe_bytes returns for files[idx]; the bytes are decoded and
\* on_frame is called, then the task yields again
LC_Read ==
    /\ pc = "lc_read"
    /\ \E r \in ColorResults :
          LET d == decode(r)
              total == Len(files)
          IN  IF d.panic
              THEN /\ log' = Append(log, <<"read_cframe_bytes", files[idx + 1].path, r>>)
                   /\ pc' = "crashed"
                   /\ UNCHANGED <<ls, result>>
              ELSE IF d.stop
              THEN /\ log' = Append(log, <<"read_cframe_bytes", files[idx + 1].path, r>>)
                   /\ result' = <<Err(d.err)>>
                   /\ pc' = "lc_ret"
                   /\ UNCHANGED ls
              ELSE /\ log' = log \o <<<<"read_cframe_bytes", files[idx + 1].path, r>>,
                                      <<"on_frame", idx, total, d.cframe>>>>
                   /\ ls' = on_frame(ls, idx, total, d.cframe)
                   /\ pc' = "lc_yield2"
                   /\ UNCHANGED result
    /\ op' = "read_cframe_bytes"
    /\ UNCHANGED <<files, idx, lframes>>
    /\ CtrlIdle

\* the second yield_fn().await of entry idx completes; next entry or return
LC_Yield2 ==
    /\ pc = "lc_yield2"
    /\ log' = Append(log, <<"yield">>)
    /\ idx' = idx + 1
    /\ IF idx + 1 < Len(files)
       THEN pc' = "lc_yield1" /\ UNCHANGED result
       ELSE pc' = "lc_ret" /\ result' = <<Ok(<<>>)>>
    /\ op' = "yield"
    /\ UNCHANGED <<ls, files, lframes>>
    /\ CtrlIdle

\* the caller takes the result of load_color_frames: an error is stored
D_Color ==
    /\ pc = "lc_ret"
    /\ IF ~result[1].ok
       THEN ls' = set_error(ls, result[1].err) /\ op' = "set_error"
       ELSE UNCHANGED ls /\ op' = "loaded"
    /\ pc' = "done"
    /\ UNCHANGED <<files, idx, lframes, result, log>>
    /\ CtrlIdle

\* While the task is suspended in a yield the host runs its timer callback.
HostTick ==
    /\ pc \in {"lc_yield1", "lc_yield2"}
    /\ Tick

(***************************************************************************)
(* Rendering (render.rs, sizing.rs).  Lengths in pixels, font sizes and    *)
(* the ratios of FontSizing are f64 values.                                *)
(***************************************************************************)
\* FontSizing::default(): char_width_ratio 0.6, line_height_ratio 1.11
FontSizing_default ==
    [char_width_ratio |-> fp_dec(6, 10, F64), line_height_ratio |-> fp_dec(111, 100, F64),
     min_font_size |-> fp_int(1, F64), max_font_size |-> fp_int(50, F64),
     padding |-> fp_int(20, F64)]

\* RenderConfig::new(font_size)
RenderConfig_new(font_size) == [font_size |-> font_size, sizing |-> FontSizing_default]

\* RenderConfig::char_width() and line_height(): font_size * ratio
char_width(cfg) == fp_mul(cfg.font_size, cfg.sizing.char_width_ratio, F64)
line_height(cfg) == fp_mul(cfg.font_size, cfg.sizing.line_height_ratio, F64)

\* CFrameData::new(width, height, chars, rgb)
CFrameData_new(width, height, chars, rgb) ==
    [width |-> nat(width), height |-> nat(height), chars |-> chars, rgb |-> rgb]

\* the character and the color of the cell at (row, col), both 0-based
cell_at(c, row, col) ==
    LET i == row * int(c.width) + col
    IN  [ch |-> c.chars[i + 1], r |-> c.rgb[i * 3 + 1], g |-> c.rgb[i * 3 + 2],
         b |-> c.rgb[i * 3 + 3]]

\* ch == b' ' || (r < 5 && g < 5 && b < 5)
skip_cell(p) == p.ch = 32 \/ (p.r < 5 /\ p.g < 5 /\ p.b < 5)

\* the inner loop with a slip: the next cell's color is not compared
batch_text_any(c, row, col, first) ==
    LET width == int(c.width)
        stops(k) ==
            LET n == cell_at(c, row, k)
            IN  ~(n.ch # 32 /\ ~(n.r < 5 /\ n.g < 5 /\ n.b < 5))
        end == IF \E k \in col .. (width - 1) : stops(k)
               THEN CHOOSE k \in col .. (width - 1) :
                       stops(k) /\ \A j \in col .. (k - 1) : ~stops(j)
               ELSE width
    IN  [i \in 1 .. (end - col) |-> cell_at(c, row, col + i - 1).ch]

\* the inner loop: the characters appended to a batch opened by the cell
\* first, scanning from col up to the first cell that breaks the run (end),
\* or to the end of the row
batch_text(c, row, col, first) ==
    LET width == int(c.width)
        stops(k) ==
            LET n == cell_at(c, row, k)
            IN  ~(n.r = first.r /\ n.g = first.g /\ n.b = first.b /\ n.ch # 32
                  /\ ~(n.r < 5 /\ n.g < 5 /\ n.b < 5))
        end == IF \E k \in col .. (width - 1) : stops(k)
               THEN CHOOSE k \in col .. (width - 1) :
                       stops(k) /\ \A j \in col .. (k - 1) : ~stops(j)
               ELSE width
    IN  [i \in 1 .. (end - col) |-> cell_at(c, row, col + i - 1).ch]

\* the outer loop with a slip: only spaces are skipped
RECURSIVE render_row_dark(_, _, _, _)
render_row_dark(c, cfg, row, col) ==
    LET width == int(c.width)
        opens(k) == cell_at(c, row, k).ch # 32
    IN  IF ~ \E k \in col .. (width - 1) : opens(k) THEN <<>>
        ELSE LET start_col == CHOOSE k \in col .. (width - 1) :
                                 opens(k) /\ \A j \in col .. (k - 1) : ~opens(j)
                 p == cell_at(c, row, start_col)
                 rest == batch_text(c, row, start_col + 1, p)
             IN  <<[text |-> <<p.ch>> \o rest,
                    x |-> fp_mul(fp_int(start_col, F64), char_width(cfg), F64),
                    y |-> fp_mul(fp_int(row, F64), line_height(cfg), F64),
                    color |-> <<p.r, p.g, p.b>>]>>
                    \o render_row_dark(c, cfg, row, start_col + 1 + Len(rest))

\* the `while col < width` loop of one row, from col on: the batches pushed.
\* The cells that `col += 1; continue` passes are those before start_col,
\* the first cell from col on that is not skipped.
RECURSIVE render_row(_, _, _, _)
render_row(c, cfg, row, col) ==
    LET width == int(c.width)
        opens(k) == ~skip_cell(cell_at(c, row, k))
    IN  IF ~ \E k \in col .. (width - 1) : opens(k) THEN <<>>
        ELSE LET start_col == CHOOSE k \in col .. (width - 1) :
                                 opens(k) /\ \A j \in col .. (k - 1) : ~opens(j)
                 p == cell_at(c, row, start_col)
                 rest == batch_text(c, row, start_col + 1, p)
             IN  <<[text |-> <<p.ch>> \o rest,
                    x |-> fp_mul(fp_int(start_col, F64), char_width(cfg), F64),
                    y |-> fp_mul(fp_int(row, F64), line_height(cfg), F64),
                    color |-> <<p.r, p.g, p.b>>]>>
                    \o render_row(c, cfg, row, start_col + 1 + Len(rest))

\* the `for row in 0..height` loop, from row on: the rows in which every
\* cell is skipped push nothing
RECURSIVE render_rows(_, _, _)
render_rows(c, cfg, row) ==
    LET height == int(c.height)
        pushes(r) == \E k \in 0 .. (int(c.width) - 1) : ~skip_cell(cell_at(c, r, k))
    IN  IF ~ \E r \in row .. (height - 1) : pushes(r) THEN <<>>
        ELSE LET next == CHOOSE r \in row .. (height - 1) :
                            pushes(r) /\ \A j \in row .. (r - 1) : ~pushes(j)
             IN  render_row(c, cfg, next, 0) \o render_rows(c, cfg, next + 1)

\* render_cframe(cframe, config): the RenderResult
render_cframe(c, cfg) ==
    [width |-> fp_mul(fp_nat(c.width, F64), char_width(cfg), F64),
     height |-> fp_mul(fp_nat(c.height, F64), line_height(cfg), F64),
     batches |-> render_rows(c, cfg, 0)]

(***************************************************************************)
(* Inputs of render_cframe, and its call.                                  *)
(***************************************************************************)
\* cells: A in red, C in green, B in the dark (2, 2, 2), a space in red, and
\* A in (4, 4, 5), just above the threshold
Cells ==
    {<<65, 255, 0, 0>>, <<67, 0, 255, 0>>, <<66, 2, 2, 2>>, <<32, 255, 0, 0>>,
     <<65, 4, 4, 5>>}

\* a frame of the given cells, row after row
FrameOf(width, height, cells) ==
    CFrameData_new(width, height,
                   [i \in 1 .. (width * height) |-> cells[i][1]],
                   [j \in 1 .. (width * height * 3) |->
                       cells[((j - 1) \div 3) + 1][((j - 1) % 3) + 2]])

\* the rows of 1 .. MaxCols cells
RowInputs == UNION {[1 .. w -> Cells] : w \in 1 .. MaxCols}

\* two rows of 2 * MaxCols cells: spaces, then A A in red and C in green, or
\* a single A
WideRows ==
    {[i \in 1 .. (2 * MaxCols) |->
         IF i <= 2 * MaxCols - 3 THEN <<32, 255, 0, 0>>
         ELSE IF i < 2 * MaxCols THEN <<65, 255, 0, 0>> ELSE <<67, 0, 255, 0>>],
     [i \in 1 .. (2 * MaxCols) |->
         IF i < 2 * MaxCols THEN <<32, 255, 0, 0>> ELSE <<65, 255, 0, 0>>]}

\* frames of one row, and frames of two rows whose second row repeats one
\* cell or is the first row again
CFrameInputs ==
    {FrameOf(Len(r), 1, r) : r \in RowInputs \cup WideRows}
        \cup {FrameOf(Len(r), 2, r \o [i \in 1 .. Len(r) |-> k]) :
                 r \in RowInputs, k \in {<<65, 255, 0, 0>>, <<32, 255, 0, 0>>}}
        \cup {FrameOf(Len(r), 2, r \o r) : r \in RowInputs}

\* font sizes of the configurations
FontSizes == {fp_int(10, F64), fp_int(12, F64)}

\* no frame has been handed to render_cframe
NoCanvas ==
    [cframe |-> FrameOf(1, 1, <<<<32, 0, 0, 0>>>>), config |-> RenderConfig_new(fp_int(10, F64)),
     result |-> <<>>]

\* render_cframe is called on the frame at hand
RenderCFrame ==
    /\ canvas' = [canvas EXCEPT !.result = <<render_cframe(canvas.cframe, canvas.config)>>]
    /\ op' = "render_cframe"
    /\ UNCHANGED <<ctrl, ret, got, ticks, ls, pc, files, idx, lframes, result, log,
                   build, input, parsed, text>>

(***************************************************************************)
(* Specifications.                                                         *)
(***************************************************************************)
TaskInit ==
    /\ ls = loader_new
    /\ pc = "idle"
    /\ files = <<>>
    /\ idx = 0
    /\ lframes = <<>>
    /\ result = <<>>
    /\ log = <<>>
    /\ input = <<>>
    /\ canvas = NoCanvas
    /\ parsed = <<>>
    /\ text = <<>>

\* a controller fresh from AnimationController::new; the decoders are not
\* called and nothing the controller computes at these frame counts depends
\* on the build
InitAnim ==
    /\ \E f \in FpsInputs : ctrl = new(f)
    /\ op = "new"
    /\ ret = FALSE
    /\ got = NoValue
    /\ ticks = -1
    /\ build = [overflow_checks |-> TRUE, usize_bytes |-> 8]
    /\ TaskInit

CtrlOther ==
    \/ SetFrameCount
    \/ SetFps
    \/ SetLoopMode
    \/ SetRange
    \/ Play
    \/ Pause
    \/ Toggle
    \/ Stop
    \/ SetCurrentFrame
    \/ Seek
    \/ StepForward
    \/ StepBackward
    \/ CtrlReset
    \/ Position
    \/ SeekPosition

\* the controller under any sequence of its operations
NextAnim ==
    \/ Tick
    \/ CtrlOther

SpecAnim == InitAnim /\ [][NextAnim]_vars

\* the range of a stopped controller over short and long animations
NextRange ==
    \/ SetFrameCount
    \/ SetLongFrameCount
    \/ SetRange
    \/ SetCurrentFrame
    \/ CtrlReset

SpecRange == InitAnim /\ [][NextRange]_vars

\* a controller constructed with any frame rate
InitFps ==
    /\ \E f \in AllFps : ctrl = new(f)
    /\ op = "new"
    /\ ret = FALSE
    /\ got = NoValue
    /\ ticks = -1
    /\ build = [overflow_checks |-> TRUE, usize_bytes |-> 8]
    /\ TaskInit

\* the frame rate is set and the timer interval read
NextFps ==
    \/ SetAnyFps
    \/ IntervalMs

SpecFps == InitFps /\ [][NextFps]_vars

\* playback over long sequences: the frame count, the range and the
\* operations that move current_frame
NextLong ==
    \/ SetFrameCount
    \/ SetLongFrameCount
    \/ SetRange
    \/ Play
    \/ Tick
    \/ StepForward
    \/ Seek
    \/ SetCurrentFrame

SpecLong == InitAnim /\ [][NextLong]_vars

\* a frame and a configuration, before render_cframe is called
InitRender ==
    /\ ctrl = new(24)
    /\ op = "new"
    /\ ret = FALSE
    /\ got = NoValue
    /\ ticks = -1
    /\ ls = loader_new
    /\ pc = "idle"
    /\ files = <<>>
    /\ idx = 0
    /\ lframes = <<>>
    /\ result = <<>>
    /\ log = <<>>
    /\ build = [overflow_checks |-> TRUE, usize_bytes |-> 8]
    /\ input = <<>>
    /\ parsed = <<>>
    /\ text = <<>>
    /\ \E c \in CFrameInputs, f \in FontSizes :
          canvas = [cframe |-> c, config |-> RenderConfig_new(f), result |-> <<>>]

\* the frame is rendered
NextRender == RenderCFrame

SpecRender == InitRender /\ [][NextRender]_vars

\* Playback runs: any operations until one leaves the controller Playing at
\* the start of its range; from then on the controller is only ticked, and
\* the host's timer keeps ticking.
NextPlay ==
    \/ Tick
    \/ (ticks < 0 /\ CtrlOther)

SpecPlay == InitAnim /\ [][NextPlay]_vars /\ WF_vars(Tick)

\* a loader state fresh from FrameLoaderState::new, beside an idle
\* controller; no method of FrameLoaderState depends on the build
InitLoader ==
    /\ ctrl = new(24)
    /\ op = "new"
    /\ ret = FALSE
    /\ got = NoValue
    /\ ticks = -1
    /\ build = [overflow_checks |-> TRUE, usize_bytes |-> 8]
    /\ TaskInit

\* the same before a loading session, in some build
InitSession ==
    /\ ctrl = new(24)
    /\ op = "new"
    /\ ret = FALSE
    /\ got = NoValue
    /\ ticks = -1
    /\ build \in Builds
    /\ TaskInit

\* the FrameLoaderState under any sequence of its method calls
NextLoader ==
    \/ StartLoading
    \/ AddTextFrame
    \/ FinishTextLoading
    \/ SetFrameColor
    \/ SkipFrameColor
    \/ SetError
    \/ LoaderReset
    \/ ProgressReset
    \/ TextPercent
    \/ ColorPercent

SpecLoader == InitLoader /\ [][NextLoader]_vars

\* a buffer in some build, before the decoders are called
InitParse ==
    /\ ctrl = new(24)
    /\ op = "new"
    /\ ret = FALSE
    /\ got = NoValue
    /\ ticks = -1
    /\ ls = loader_new
    /\ pc = "idle"
    /\ files = <<>>
    /\ idx = 0
    /\ lframes = <<>>
    /\ result = <<>>
    /\ log = <<>>
    /\ build \in Builds
    /\ input \in Buffers
    /\ canvas = NoCanvas
    /\ parsed = <<>>
    /\ text = <<>>

\* the decoders called on the buffer
NextParse ==
    \/ ParseCFrame
    \/ ParseCFrameText

SpecParse == InitParse /\ [][NextParse]_vars

\* one loading session: load_text_frames, the caller's bookkeeping,
\* load_color_frames, with the host's timer ticking at the yields
NextSession ==
    \/ LT_Call
    \/ LT_List
    \/ LT_Read
    \/ D_Text
    \/ D_Add
    \/ D_Finish
    \/ LC_Yield1
    \/ LC_Read
    \/ LC_Yield2
    \/ D_Color
    \/ HostTick

SpecSession == InitSession /\ [][NextSession]_vars

(***************************************************************************)
(* Claims about the controller.                                            *)
(***************************************************************************)
\* tick() left every field but current_frame as it was
OnlyFrameChanged(c, d) == d = [c EXCEPT !.current_frame = d.current_frame]

\* C1: every tick() step follows the case analysis: not Playing or no frames:
\* returns false, no field changes; current_frame below start_frame: snaps to
\* start_frame, returns true; at or beyond end_frame: Loop wraps to
\* start_frame and stays Playing (true), Once sets Finished, keeps
\* current_frame (false); otherwise current_frame grows by exactly 1 (true).
C1_TickCases ==
    [][op' = "tick" =>
        LET r == range_frames(ctrl)
        IN  IF ctrl.state # "Playing" \/ ctrl.frame_count = 0
            THEN ret' = FALSE /\ ctrl' = ctrl
            ELSE IF ctrl.current_frame < r.start
            THEN /\ ret' = TRUE
                 /\ ctrl'.current_frame = r.start
                 /\ OnlyFrameChanged(ctrl, ctrl')
            ELSE IF ctrl.current_frame >= r.end
            THEN IF ctrl.loop_mode = "Loop"
                 THEN /\ ret' = TRUE
                      /\ ctrl'.current_frame = r.start
                      /\ ctrl'.state = "Playing"
                      /\ OnlyFrameChanged(ctrl, ctrl')
                 ELSE /\ ret' = FALSE
                      /\ ctrl' = [ctrl EXCEPT !.state = "Finished"]
            ELSE /\ ret' = TRUE
                 /\ ctrl'.current_frame = ctrl.current_frame + 1
                 /\ OnlyFrameChanged(ctrl, ctrl')
    ]_vars

\* a tick() under Once has just finished a playback away from frame 0
C1_Witness ==
    /\ op = "tick"
    /\ ret = FALSE
    /\ ctrl.state = "Finished"
    /\ ctrl.loop_mode = "Once"
    /\ ctrl.current_frame > range_frames(ctrl).start

\* C2: under Once, a controller put into Playing at start_frame and then only
\* ticked is Playing at start_frame + k after k < range_frame_count() ticks,
\* and Finished at end_frame after range_frame_count() ticks; that tick and
\* every later one return false and change neither current_frame nor state.
C2_OnceRun ==
    (ticks >= 0 /\ ctrl.loop_mode = "Once") =>
        LET r == range_frames(ctrl)
            n == range_frame_count(ctrl)
        IN  /\ n < MaxTicks
            /\ IF ticks < n
               THEN /\ ctrl.state = "Playing"
                    /\ ctrl.current_frame = r.start + ticks
                    /\ (ticks > 0 => ret = TRUE)
               ELSE /\ ctrl.state = "Finished"
                    /\ ctrl.current_frame = r.end
                    /\ ret = FALSE

\* frame_count = 5, full range, Once: the fifth tick has ended the playback
C2_Witness ==
    /\ ctrl.loop_mode = "Once"
    /\ ctrl.frame_count = 5
    /\ ctrl.range_start = Zero /\ ctrl.range_end = One
    /\ ticks = 5
    /\ ctrl.current_frame = 4
    /\ ctrl.state = "Finished"

\* C3: under Loop, a tick() never leaves Playing; a controller put into
\* Playing at start_frame and then only ticked is at
\* start_frame + (k mod range_frame_count()) after k ticks, and every frame
\* of the range is shown again and again.
C3_LoopRun ==
    /\ [][op' = "tick" /\ ctrl.loop_mode = "Loop" /\ ctrl.state = "Playing"
            => ctrl'.state = "Playing"]_vars
    /\ []((ticks >= 0 /\ ctrl.loop_mode = "Loop") =>
            /\ ctrl.state = "Playing"
            /\ (ticks < MaxTicks =>
                  ctrl.current_frame =
                     range_frames(ctrl).start + (ticks % range_frame_count(ctrl))))
    /\ \A f \in 0 .. (MaxFrames + 1) :
          []((/\ ticks >= 0
              /\ ctrl.loop_mode = "Loop"
              /\ range_frames(ctrl).start <= f
              /\ f <= range_frames(ctrl).end)
             => <>(ctrl.current_frame = f))

\* frame_count = 5, full range, Loop: six ticks from frame 0 have wrapped once
C3_Witness ==
    /\ ctrl.loop_mode = "Loop"
    /\ ctrl.frame_count = 5
    /\ ctrl.range_start = Zero /\ ctrl.range_end = One
    /\ ticks = 6
    /\ ctrl.current_frame = 1
    /\ ctrl.state = "Playing"

(***************************************************************************)
(* Claims about the loader.                                                *)
(***************************************************************************)
\* the events of one kind, in the order they happened
Events(kind) == SelectSeq(log, LAMBDA e : e[1] = kind)
\* the events of load_color_frames, in the order they happened
ColorLog == SelectSeq(log, LAMBDA e : e[1] \in {"yield", "read_cframe_bytes", "on_frame"})
\* load_text_frames has returned Ok
TextOk == Len(files) > 0 /\ Len(lframes) = Len(files) /\ pc \notin {"lt_list", "lt_read"}
\* load_color_frames is running or has returned
ColorPhase == pc \in {"lc_yield1", "lc_read", "lc_yield2", "lc_ret", "done", "crashed"} /\ TextOk
\* load_color_frames has returned; result holds what it returned
ColorReturned == pc \in {"lc_ret", "done"} /\ TextOk
\* what on_frame is to receive for the provider's result r
Decoded(r) ==
    IF r.val # <<>> /\ parse_cframe(r.val[1]).ok
    THEN <<parse_cframe(r.val[1]).val>>
    ELSE <<>>

\* C4: over any sequence of FrameLoaderState calls the phase changes only
\* along Idle -> LoadingText -> LoadingColors -> Complete: LoadingColors is
\* entered only from LoadingText, Complete only from LoadingColors,
\* LoadingText only by start_loading, and Idle only by a failure or reset.
C4_PhaseOrder ==
    [][/\ (ls'.phase = "LoadingColors" /\ ls.phase # "LoadingColors")
              => ls.phase = "LoadingText"
       /\ (ls'.phase = "Complete" /\ ls.phase # "Complete")
              => ls.phase = "LoadingColors"
       /\ (ls'.phase = "LoadingText" /\ ls.phase # "LoadingText")
              => op' = "start_loading"
       /\ (ls'.phase = "Idle" /\ ls.phase # "Idle")
              => op' \in {"set_error", "reset", "finish_text_loading"}
    ]_vars

\* C5: on_frame is called once per entry, in index order with total = n, with
\* Some(cframe) exactly when the provider returned bytes parse_cframe accepts
\* and None otherwise; every entry the provider answered gets its on_frame,
\* whatever its bytes are; load_color_frames returns Err only for a provider
\* error, and a run that returns Ok has called on_frame for all n entries.
C5_OnFramePerEntry ==
    LET reads == Events("read_cframe_bytes")
        calls == Events("on_frame")
        n == Len(files)
    IN  /\ Len(calls) <= Len(reads) /\ Len(reads) <= Len(calls) + 1
        /\ Len(reads) = Len(calls) + 1 => ~reads[Len(reads)][3].ok
        /\ \A j \in 1 .. Len(calls) :
              /\ calls[j][2] = j - 1
              /\ calls[j][3] = n
              /\ reads[j][3].ok
              /\ calls[j][4] = Decoded(reads[j][3])
        /\ ColorReturned =>
              IF result[1].ok
              THEN Len(calls) = n
              ELSE reads # <<>> /\ ~reads[Len(reads)][3].ok

\* C6: the events of load_color_frames are, entry after entry: a yield, the
\* read of the entry, on_frame of the entry, a yield; the task reads only
\* after the first yield and moves on only after the second, and a run that
\* returns Ok over n entries has yielded exactly 2n times.
C6_YieldOrder ==
    LET cl == ColorLog
    IN  /\ \A p \in 1 .. Len(cl) :
              LET i == (p - 1) \div 4
              IN  CASE p % 4 = 1 -> cl[p] = <<"yield">>
                    [] p % 4 = 2 -> /\ cl[p][1] = "read_cframe_bytes"
                                    /\ cl[p][2] = files[i + 1].path
                    [] p % 4 = 3 -> cl[p][1] = "on_frame" /\ cl[p][2] = i
                    [] p % 4 = 0 -> cl[p] = <<"yield">>
        /\ pc = "lc_yield1" => Len(cl) = 4 * idx
        /\ pc = "lc_read" => Len(cl) = 4 * idx + 1
        /\ pc = "lc_yield2" => Len(cl) = 4 * idx + 3
        /\ pc = "crashed" => Len(cl) = 4 * idx + 2
        /\ (ColorReturned /\ result[1].ok) =>
              /\ Len(cl) = 4 * Len(files)
              /\ Len(Events("yield")) = 2 * Len(files)

\* a two-file run has returned Ok after four yields, and the host's timer
\* has advanced the playback in between
C6_Witness ==
    /\ pc = "done"
    /\ ColorReturned /\ result[1].ok
    /\ Len(files) = 2
    /\ Len(Events("yield")) = 4
    /\ ticks >= 1
    /\ ctrl.current_frame = 1

\* C7: in a session over n > 0 files without a provider error, after
\* finish_text_loading the phase is LoadingColors while color_loaded < n and
\* Complete once color_loaded = color_total = n; as long as every on_frame
\* passed None no frame has color data.
C7_CompleteAtTotal ==
    LET n == Len(files)
        calls == Events("on_frame")
    IN  /\ (ColorPhase /\ ls.error = <<>>) =>
              /\ ls.progress.color_total = n
              /\ ls.progress.color_loaded = Len(calls)
              /\ ls.progress.color_loaded <= n
              /\ ls.progress.color_loaded < n => ls.phase = "LoadingColors"
              /\ ls.progress.color_loaded = n => ls.phase = "Complete"
        /\ (\A j \in 1 .. Len(calls) : calls[j][4] = <<>>) => ~has_any_color(ls)

\* two files, both skipped: Complete without any color
C7_Witness ==
    /\ pc = "done"
    /\ Len(files) = 2
    /\ Len(Events("on_frame")) = 2
    /\ \A j \in 1 .. 2 : Events("on_frame")[j][4] = <<>>
    /\ ls.phase = "Complete"
    /\ ~has_any_color(ls)

\* C8: finish_text_loading() with no frames stores an error and sets Idle
\* (can_play() false); with frames it sets LoadingColors and does not touch
\* error, and can_play() is true even if no frame has color data; can_play()
\* is true exactly when frames is non-empty and the phase is LoadingColors or
\* Complete.
C8_FinishTextLoading ==
    /\ [][op' = "finish_text_loading" =>
            IF ls.frames = <<>>
            THEN /\ ls'.error # <<>>
                 /\ ls'.phase = "Idle"
                 /\ ~can_play(ls')
            ELSE /\ ls'.phase = "LoadingColors"
                 /\ ls'.error = ls.error
                 /\ can_play(ls')
                 /\ ls'.frames = ls.frames
       ]_vars
    /\ [](can_play(ls) <=>
            (Len(ls.frames) > 0 /\ ls.phase \in {"LoadingColors", "Complete"}))

\* finish_text_loading has just opened playback on text-only frames
C8_Witness ==
    /\ op = "finish_text_loading"
    /\ ls.phase = "LoadingColors"
    /\ ls.error = <<>>
    /\ can_play(ls)
    /\ ~has_any_color(ls)

\* C9: on an empty file list load_text_frames returns the no-frames error
\* without a read, and the phase stays Idle; otherwise it reads the files in
\* list order, returns one text-only frame per file in that order with the
\* file list, and at the first failed read returns that error, with no
\* frames, after k+1 reads.
C9_LoadTextFrames ==
    LET reads == Events("read_frame_text")
        lists == Events("get_frame_files")
        returned == pc \in {"lt_ret", "d_add", "d_finish"} \/ (pc = "done" /\ ~TextOk)
    IN  /\ \A j \in 1 .. Len(reads) : reads[j][2] = files[j].path
        /\ \A j \in 1 .. Len(reads) - 1 : reads[j][3].ok
        /\ (lists # <<>> /\ lists[1][2].ok /\ lists[1][2].val = <<>>) =>
              /\ result = <<Err("No frames found in directory")>>
              /\ reads = <<>>
              /\ ls.phase = "Idle"
        /\ (returned /\ result[1].ok) =>
              /\ result[1].val.frame_files = files
              /\ Len(result[1].val.frames) = Len(files)
              /\ Len(reads) = Len(files)
              /\ \A j \in 1 .. Len(files) :
                    /\ reads[j][3].ok
                    /\ result[1].val.frames[j] = [content |-> reads[j][3].val, cframe |-> <<>>]
        /\ (returned /\ ~result[1].ok /\ files # <<>>) =>
              /\ reads # <<>>
              /\ ~reads[Len(reads)][3].ok
              /\ result[1] = Err(reads[Len(reads)][3].err)
              /\ ls.phase = "Idle"

\* the provider listed no file: the session has failed, the phase is Idle
C9_Witness ==
    /\ pc = "done"
    /\ Events("get_frame_files")[1][2] = Ok(<<>>)
    /\ Events("read_frame_text") = <<>>
    /\ ls.phase = "Idle"
    /\ ls.error = <<"No frames found in directory">>

\* C10: a failed read_cframe_bytes at entry k is the last event of
\* load_color_frames, which returns that error; on_frame was called for
\* entries 0..k-1 only, and what it stored for them is still in frames.
C10_ProviderError ==
    LET reads == Events("read_cframe_bytes")
        calls == Events("on_frame")
    IN  \A j \in 1 .. Len(reads) :
           ~reads[j][3].ok =>
              /\ j = Len(reads)
              /\ log[Len(log)] = reads[j]
              /\ ColorReturned
              /\ result = <<Err(reads[j][3].err)>>
              /\ Len(calls) = j - 1
              /\ \A i \in 1 .. j - 1 :
                    /\ calls[i][2] = i - 1
                    /\ ls.frames[i].cframe = calls[i][4]
                    /\ get_frame(ls, i - 1) # <<>>

\* the read of the second entry failed; the first frame keeps its color data
C10_Witness ==
    /\ pc = "done"
    /\ Len(files) = 2
    /\ Len(Events("read_cframe_bytes")) = 2
    /\ ~Events("read_cframe_bytes")[2][3].ok
    /\ ls.error = <<"cframe read failed">>
    /\ has_color(ls.frames[1])
    /\ ~has_color(ls.frames[2])

(***************************************************************************)
(* Claims about the decoders.                                              *)
(***************************************************************************)
\* the number 8 + width * height * 4, not wrapped
Required(width, height) ==
    usize_add(nat(HEADER_SIZE),
              usize_mul(usize_mul(width, height, 16).value, nat(4), 16).value, 16).value

\* what the order of checks demands of parse_cframe on the buffer d
Demanded(d, r) ==
    LET len == Len(d)
        width == u32_from_le_bytes(d, 0)
        height == u32_from_le_bytes(d, 4)
    IN  IF len < 8
        THEN r = [ok |-> FALSE,
                  err |-> [kind |-> "FileTooSmall", expected |-> nat(8), actual |-> nat(len)]]
        ELSE IF width = <<>> \/ height = <<>>
        THEN r = [ok |-> FALSE,
                  err |-> [kind |-> "InvalidDimensions", width |-> width,
                           height |-> height]]
        ELSE IF less(nat(len), Required(width, height))
        THEN r = [ok |-> FALSE,
                  err |-> [kind |-> "SizeMismatch", expected |-> Required(width, height),
                           actual |-> nat(len)]]
        ELSE r.ok

\* C12: parse_cframe checks in a fixed order: a buffer shorter than 8 bytes
\* gives FileTooSmall{expected: 8, actual: len}; otherwise a zero width or
\* height gives InvalidDimensions, also when the buffer is too short for the
\* announced size; otherwise len < 8 + width*height*4 gives
\* SizeMismatch{expected: 8 + width*height*4, actual: len}; otherwise the call
\* succeeds. parse_cframe_text returns the same error on every input that
\* parse_cframe rejects.
C12_CheckOrder ==
    /\ parsed # <<>> => Demanded(input, parsed[1])
    /\ (parsed # <<>> /\ text # <<>> /\ ~parsed[1].ok) => text[1] = parsed[1]

\* trailing bytes appended to a buffer
Trailing == {<<7>>, <<0, 255>>}

\* C13: on a buffer of at least 8 + width*height*4 bytes with width and
\* height above 0, parse_cframe succeeds with width*height chars and
\* width*height*3 color bytes, chars[i] = data[8+4i] and rgb[3i..3i+3] =
\* data[8+4i+1 .. 8+4i+4] for every pixel i; the result depends only on the
\* first 8 + width*height*4 bytes, so trailing bytes change neither the
\* success nor the decoded value, and decoding again gives the same result.
C13_Decoded ==
    LET width == u32_from_le_bytes(input, 0)
        height == u32_from_le_bytes(input, 4)
    IN  (/\ parsed # <<>>
         /\ Len(input) >= 8
         /\ width # <<>>
         /\ height # <<>>
         /\ ~less(nat(Len(input)), Required(width, height)))
        => LET r == parsed[1]
               n == int(width) * int(height)
           IN  /\ r.ok
               /\ r.val.width = width
               /\ r.val.height = height
               /\ Len(r.val.chars) = n
               /\ Len(r.val.rgb) = n * 3
               /\ \A i \in 0 .. (n - 1) :
                     /\ r.val.chars[i + 1] = input[8 + 4 * i + 1]
                     /\ \A k \in 0 .. 2 :
                           r.val.rgb[3 * i + k + 1] = input[8 + 4 * i + 1 + k + 1]
               /\ parse_cframe(SubSeq(input, 1, 8 + n * 4)) = r
               /\ \A t \in Trailing : parse_cframe(input \o t) = r
               /\ parse_cframe(input) = r

\* a 2 x 2 frame followed by trailing bytes has been decoded
C13_Witness ==
    /\ parsed # <<>>
    /\ parsed[1].ok
    /\ Len(parsed[1].val.chars) = 4
    /\ Len(input) > 8 + 16

(***************************************************************************)
(* Claims about a failed loading session.                                  *)
(***************************************************************************)
\* the loader is failed: an error is stored, the phase is Idle, no playback
Failed(s) == s.error # <<>> /\ s.phase = "Idle" /\ ~can_play(s)

\* C11: set_error(msg) stores msg and sets the phase to Idle without
\* touching frames or counters; after a failure the session stays failed
\* until restarted: whatever calls follow that are neither start_loading nor
\* reset (late set_frame_color / skip_frame_color callbacks and
\* finish_text_loading included), the phase remains Idle, the error stays
\* stored and can_play() stays false.
C11_StaysFailed ==
    [][/\ op' = "set_error" =>
            /\ ls'.error # <<>>
            /\ ls'.phase = "Idle"
            /\ ls'.frames = ls.frames
            /\ ls'.frame_paths = ls.frame_paths
            /\ ls'.progress = ls.progress
       /\ (Failed(ls) /\ op' \notin {"start_loading", "reset"}) => Failed(ls')]_vars

(***************************************************************************)
(* Claims about the playback range and the state machine.                  *)
(***************************************************************************)
\* a <= b on f64 values
fp_le(a, b) == ~fp_lt(b, a)
\* a - b as an f64
fp_sub(a, b, p) == fp_add(a, [b EXCEPT !.neg = ~b.neg], p)
\* the f64 literals 0.25 and 0.75
Quarter == fp_dec(25, 100, F64)
ThreeQuarters == fp_dec(75, 100, F64)

\* C14: after any sequence of controller operations the stored range
\* satisfies 0.0 <= range_start <= range_end <= 1.0 and
\* range_end - range_start >= 0.01.
C14_RangeBounds ==
    /\ fp_le(Zero, ctrl.range_start)
    /\ fp_le(ctrl.range_start, ctrl.range_end)
    /\ fp_le(ctrl.range_end, One)
    /\ fp_le(Hundredth, fp_sub(ctrl.range_end, ctrl.range_start, F64))

\* C15: range_frames() is (round(range_start * (frame_count - 1)),
\* round(range_end * (frame_count - 1))) and range_frame_count() is
\* end_frame - start_frame + 1; frame_count = 100 with the range (0.25, 0.75)
\* gives (25, 74); for every storable range 0 <= start_frame <= end_frame <=
\* frame_count - 1, so range_frame_count() never exceeds frame_count.
C15_RangeFrames ==
    ctrl.frame_count > 0 =>
        LET r == range_frames(ctrl)
            max_idx == ctrl.frame_count - 1
        IN  /\ r.start = scaled(ctrl.range_start, max_idx)
            /\ r.end = scaled(ctrl.range_end, max_idx)
            /\ range_frame_count(ctrl) = r.end - r.start + 1
            /\ (/\ ctrl.frame_count = 100
                /\ ctrl.range_start = Quarter
                /\ ctrl.range_end = ThreeQuarters)
                   => (r.start = 25 /\ r.end = 74)
            /\ 0 <= r.start
            /\ r.start <= r.end
            /\ r.end <= ctrl.frame_count - 1
            /\ range_frame_count(ctrl) <= ctrl.frame_count

\* C16: play() moves to Playing only from Stopped and only if
\* frame_count > 0, and changes nothing when already Playing, when Finished
\* or when frame_count == 0; pause() moves Playing to Stopped and does
\* nothing otherwise; stop() always gives Stopped with current_frame ==
\* start_frame; play() and pause() never change current_frame.
C16_PlayPauseStop ==
    [][/\ op' = "play" =>
            /\ ctrl'.current_frame = ctrl.current_frame
            /\ IF ctrl.state = "Stopped" /\ ctrl.frame_count > 0
               THEN ctrl' = [ctrl EXCEPT !.state = "Playing"]
               ELSE ctrl' = ctrl
       /\ op' = "pause" =>
            /\ ctrl'.current_frame = ctrl.current_frame
            /\ IF ctrl.state = "Playing"
               THEN ctrl' = [ctrl EXCEPT !.state = "Stopped"]
               ELSE ctrl' = ctrl
       /\ op' = "stop" =>
            /\ ctrl'.state = "Stopped"
            /\ ctrl'.current_frame = range_frames(ctrl').start
            /\ [ctrl' EXCEPT !.state = ctrl.state, !.current_frame = ctrl.current_frame]
                   = ctrl]_vars

\* play() was called on a finished playback
C16_Witness == op = "play" /\ ctrl.state = "Finished" /\ ctrl.frame_count > 0

\* the controller after k further ticks
RECURSIVE tick_n(_, _)
tick_n(c, k) == IF k = 0 THEN c ELSE tick_n(tick(c).ctrl, k - 1)

\* C17: toggle() from Playing goes to Stopped with current_frame unchanged;
\* from Stopped it behaves as play(); from Finished it sets current_frame to
\* start_frame and the state to Playing, so a finished Once playback restarts
\* and finishes again after range_frame_count() further ticks.
C17_Toggle ==
    [][op' = "toggle" =>
          /\ ctrl.state = "Playing" => ctrl' = [ctrl EXCEPT !.state = "Stopped"]
          /\ ctrl.state = "Stopped" => ctrl' = play(ctrl)
          /\ ctrl.state = "Finished" =>
                /\ ctrl' = [ctrl EXCEPT !.state = "Playing",
                                        !.current_frame = range_frames(ctrl).start]
                /\ ctrl.loop_mode = "Once" =>
                      /\ tick_n(ctrl', range_frame_count(ctrl')).state = "Finished"
                      /\ \A k \in 0 .. (range_frame_count(ctrl') - 1) :
                            tick_n(ctrl', k).state = "Playing"]_vars

\* C18: after step_forward() or step_backward() with frame_count > 0 the
\* state is Stopped, whatever it was before (Stopped, Playing or Finished).
C18_StepStops ==
    [][(op' \in {"step_forward", "step_backward"} /\ ctrl.frame_count > 0)
          => ctrl'.state = "Stopped"]_vars

\* current_frame lies inside the range of the controller c
InRange(c) ==
    /\ range_frames(c).start <= c.current_frame
    /\ c.current_frame <= range_frames(c).end

\* C19: with frame_count > 0, step_forward() moves current_frame to
\* current_frame + 1, or to start_frame when it is at or beyond end_frame;
\* step_backward() moves it to current_frame - 1, or to end_frame when it is
\* at or before start_frame; for every current_frame inside [start_frame,
\* end_frame], a step forward followed by a step backward (and the reverse)
\* restores current_frame, and the result of either step lies inside
\* [start_frame, end_frame]; with frame_count == 0 both are no-ops.
C19_Steps ==
    [][LET r == range_frames(ctrl)
       IN  /\ (op' = "step_forward" /\ ctrl.frame_count > 0) =>
                 /\ ctrl'.current_frame =
                        IF ctrl.current_frame >= r.end THEN r.start
                        ELSE ctrl.current_frame + 1
                 /\ InRange(ctrl) =>
                        /\ step_backward(ctrl').current_frame = ctrl.current_frame
                        /\ InRange(ctrl')
           /\ (op' = "step_backward" /\ ctrl.frame_count > 0) =>
                 /\ ctrl'.current_frame =
                        IF ctrl.current_frame <= r.start THEN r.end
                        ELSE ctrl.current_frame - 1
                 /\ InRange(ctrl) =>
                        /\ step_forward(ctrl').current_frame = ctrl.current_frame
                        /\ InRange(ctrl')
           /\ (op' \in {"step_forward", "step_backward"} /\ ctrl.frame_count = 0) =>
                 ctrl' = ctrl]_vars

\* a step forward has wrapped to the start of a range that begins after
\* frame 0 and holds several frames
C19_Witness ==
    /\ op = "step_forward"
    /\ ctrl.current_frame = range_frames(ctrl).start
    /\ range_frames(ctrl).start > 0
    /\ range_frames(ctrl).end > range_frames(ctrl).start

\* C20: Finished is entered only by a tick() in state Playing with loop mode
\* Once, frame_count > 0 and current_frame >= end_frame; no other operation
\* ever changes the state to Finished.
C20_FinishedByTick ==
    [][(ctrl.state # "Finished" /\ ctrl'.state = "Finished") =>
          /\ op' = "tick"
          /\ ctrl.state = "Playing"
          /\ ctrl.loop_mode = "Once"
          /\ ctrl.frame_count > 0
          /\ ctrl.current_frame >= range_frames(ctrl).end]_vars

\* a playback run under Once has just been finished by its last tick
C20_Witness ==
    /\ op = "tick"
    /\ ctrl.state = "Finished"
    /\ ctrl.loop_mode = "Once"
    /\ ticks = range_frame_count(ctrl)

(***************************************************************************)
(* Claims about the loop mode, seeking and the frame count.                *)
(***************************************************************************)
\* C21: set_loop_mode(Loop) called while the state is Finished changes the
\* state to Stopped, after which play() starts playback again; set_loop_mode
\* changes the state in no other case; in every reachable state,
\* state == Finished implies loop_mode == Once.
C21_Rearm ==
    [][/\ op' = "set_loop_mode" =>
             IF ctrl.state = "Finished" /\ ctrl'.loop_mode = "Loop"
             THEN /\ ctrl'.state = "Stopped"
                  /\ play(ctrl').state = "Playing"
             ELSE ctrl'.state = ctrl.state
       /\ ctrl'.state = "Finished" => ctrl'.loop_mode = "Once"]_vars

\* the f64 literal 0.5
Half == fp_dec(50, 100, F64)

\* round(x) of an f64 x >= 0: the whole number t with t - 0.5 <= x < t + 0.5,
\* which is the whole part of x or the number after it
NearestFrame(x) ==
    IF fp_lt(x, fp_add(fp_int(fp_to_usize(x), F64), Half, F64))
    THEN fp_to_usize(x) ELSE fp_to_usize(x) + 1

\* round(start + clamp(p, 0, 1) * (end - start)) clamped into [start, end],
\* the product and the sum taken in f64
rounded_into(p, start, end) ==
    Min(Max(NearestFrame(fp_add(fp_int(start, F64),
                                fp_mul(fp_clamp(p, Zero, One),
                                       fp_int(end - start, F64), F64),
                                F64)),
            start),
        end)

\* the same for the inputs of seek and the frame ranges of the controllers
RoundedInto ==
    [p \in RangeInputs, r \in frame_pairs(RoundScaled, Ranges)
        |-> rounded_into(p, r[1], r[2])]

\* the frame seek(p) is to land on in the controller c
SeekTarget(c, p) ==
    lookup(RoundedInto, <<p, <<range_frames(c).start, range_frames(c).end>>>>,
           rounded_into(p, range_frames(c).start, range_frames(c).end))

\* the percentages at or below 0.0, and those at or above 1.0
LowInputs == {p \in RangeInputs : fp_le(p, Zero)}
HighInputs == {p \in RangeInputs : fp_le(One, p)}

\* C22: seek(p) with frame_count > 0 sets current_frame to
\* round(start_frame + clamp(p, 0, 1) * (end_frame - start_frame)) clamped
\* into [start_frame, end_frame], so seek(0.0) lands on start_frame, seek(1.0)
\* on end_frame and values of p outside [0, 1] behave like 0 or 1; seek never
\* changes the playback state, and with frame_count == 0 it changes nothing.
C22_Seek ==
    [][op' = "seek" =>
          /\ ctrl'.state = ctrl.state
          /\ ctrl.frame_count = 0 => ctrl' = ctrl
          /\ ctrl.frame_count > 0 =>
                /\ \E p \in RangeInputs :
                      ctrl' = [ctrl EXCEPT !.current_frame = SeekTarget(ctrl, p)]
                /\ \A p \in RangeInputs :
                      seek(ctrl, p).current_frame = SeekTarget(ctrl, p)
                /\ \A p \in LowInputs :
                      seek(ctrl, p).current_frame = range_frames(ctrl).start
                /\ \A p \in HighInputs :
                      seek(ctrl, p).current_frame = range_frames(ctrl).end]_vars

\* seek(0.29) has landed inside the full range of 51 frames: 0.29 * 50.0 is
\* 14.499999999999998 and the target is frame 14
C22_Witness ==
    /\ op = "seek"
    /\ ctrl.frame_count = 51
    /\ ctrl.range_start = Zero /\ ctrl.range_end = One
    /\ ctrl.current_frame = 14

\* C23: position() is the inverse of seek's mapping: it returns
\* (current_frame - start_frame) / (end_frame - start_frame), and 0.0 when the
\* range collapses to a single frame; for every frame f in [start_frame,
\* end_frame], set_current_frame(f) followed by seek(position()) leaves
\* current_frame == f.
C23_PositionInverse ==
    [][LET r == range_frames(ctrl)
       IN  /\ op' = "position" =>
                 /\ ctrl' = ctrl
                 /\ r.end = r.start => got'.num = 0
                 /\ r.end > r.start =>
                       got'.num * (r.end - r.start)
                           = (ctrl.current_frame - r.start) * got'.den
                 /\ \A f \in r.start .. r.end :
                       LET c1 == set_current_frame(ctrl, f)
                       IN  /\ c1.current_frame = f
                           /\ seek(c1, f64_of(position(c1))).current_frame = f
           /\ (op' = "seek_position" /\ InRange(ctrl)) => ctrl' = ctrl]_vars

\* seek(position()) was applied inside a range that begins after frame 0
C23_Witness ==
    /\ op = "seek_position"
    /\ range_frames(ctrl).start > 0
    /\ ctrl.current_frame > range_frames(ctrl).start
    /\ ctrl.current_frame <= range_frames(ctrl).end

\* C24: in every state reachable by any sequence of controller operations
\* (set_frame_count and set_range in any order included), position() returns
\* a value within 0.0 .. 1.0, i.e. current_frame lies within [start_frame,
\* end_frame] whenever position() is read.
C24_PositionBounds ==
    [][op' = "position" =>
          /\ 0 <= got'.num
          /\ got'.num <= got'.den
          /\ InRange(ctrl)]_vars

\* C25: set_frame_count(n) with n > 0 sets frame_count = n and
\* current_frame = min(current_frame, n - 1), and leaves state, loop_mode,
\* fps and the normalized range (range_start, range_end) unchanged, so a
\* range set before the frame count changes still selects the same fraction
\* of the sequence afterwards.
C25_SetFrameCount ==
    [][(op' = "set_frame_count" /\ ctrl'.frame_count > 0) =>
          LET n == ctrl'.frame_count
          IN  /\ ctrl'.current_frame =
                     IF ctrl.current_frame < n - 1 THEN ctrl.current_frame ELSE n - 1
              /\ ctrl'.state = ctrl.state
              /\ ctrl'.loop_mode = ctrl.loop_mode
              /\ ctrl'.fps = ctrl.fps
              /\ ctrl'.range_start = ctrl.range_start
              /\ ctrl'.range_end = ctrl.range_end
              /\ range_frames(ctrl').start = scaled(ctrl.range_start, n - 1)
              /\ range_frames(ctrl').end = scaled(ctrl.range_end, n - 1)]_vars

\* the frame count was lowered under a partial range: current_frame was
\* clamped to the last frame and now lies beyond the range's end
C25_Witness ==
    /\ op = "set_frame_count"
    /\ ctrl.frame_count > 0
    /\ ctrl.current_frame = ctrl.frame_count - 1
    /\ fp_lt(ctrl.range_end, One)
    /\ ctrl.current_frame > range_frames(ctrl).end

\* a controller of 100 frames, at frame 0, and the same after
\* set_range(0.25, 0.75) and play()
Hundred == set_frame_count(new(24), 100)
HundredPlayed == play(set_range(Hundred, Quarter, ThreeQuarters))

\* C26: immediately after set_range(s, e), current_frame lies in
\* [start_frame, end_frame] of the new range: it is unchanged if it was
\* already inside and equals the new start_frame otherwise; hence with
\* frame_count = 100 and current_frame 0, set_range(0.25, 0.75) followed by
\* play() leaves the controller Playing at current_frame 25; set_range does
\* not change the playback state.
C26_SetRange ==
    [][op' = "set_range" =>
          LET r == range_frames(ctrl')
          IN  /\ InRange(ctrl')
              /\ ctrl'.current_frame =
                     IF r.start <= ctrl.current_frame /\ ctrl.current_frame <= r.end
                     THEN ctrl.current_frame ELSE r.start
              /\ ctrl'.state = ctrl.state
              /\ ctrl'.frame_count = ctrl.frame_count
              /\ Hundred.current_frame = 0
              /\ HundredPlayed.state = "Playing"
              /\ HundredPlayed.current_frame = 25]_vars

\* set_range was called during playback and the controller is at the start
\* of a range that begins after frame 0
C26_Witness ==
    /\ op = "set_range"
    /\ ctrl.state = "Playing"
    /\ range_frames(ctrl).start > 0
    /\ ctrl.current_frame = range_frames(ctrl).start

(***************************************************************************)
(* Claims about tick's return value and the timer interval.                *)
(***************************************************************************)
\* C27: tick() returns true if and only if the call changed current_frame:
\* whenever it returns true the current_frame after the call differs from
\* the one before, and whenever it returns false current_frame is unchanged;
\* this holds for every frame_count >= 1, every loop mode and every range,
\* including ranges that collapse to a single frame.
C27_TickReturn ==
    [][(op' = "tick" /\ ctrl.frame_count >= 1) =>
          (ret' <=> ctrl'.current_frame # ctrl.current_frame)]_vars

\* C28: fps is at least 1 after AnimationController::new(f) and after every
\* set_fps(f), for every f including 0, and interval_ms() equals
\* max(1, round(1000 / fps)) with rounding to the nearest integer.
C28_IntervalRounded ==
    [][/\ ctrl.fps >= 1
       /\ ctrl'.fps >= 1
       /\ op' = "interval_ms" => got'.num = Max(1, Round(1000, ctrl.fps))]_vars

\* C28 as amended: fps is at least 1 after new(f) and after every set_fps(f),
\* for every f including 0 (it is f, or 1 for f = 0), and interval_ms()
\* equals max(1, floor(1000 / fps)): the quotient is truncated, not rounded.
C28_IntervalTruncated ==
    [][/\ ctrl.fps >= 1
       /\ ctrl'.fps >= 1
       /\ op' = "set_fps" => (ctrl'.fps \in AllFps /\ ctrl'.fps # 0)
       /\ op' = "interval_ms" =>
             /\ ctrl' = ctrl
             /\ got'.num >= 1
             /\ got'.num * ctrl.fps <= 1000 \/ got'.num = 1
             /\ ctrl.fps <= 1000 => (got'.num + 1) * ctrl.fps > 1000]_vars

\* the interval was read at 24 frames per second: 41, where rounding gives 42
C28_Witness == op = "interval_ms" /\ ctrl.fps = 24 /\ got.num = 41

\* C29: interval_ms() is 1000 / fps with the fractional part discarded, and
\* never less than 1: it is 41 for fps = 24 and 16 for fps = 60, 1000 for
\* fps = 1, and 1 for every fps >= 1000.
C29_IntervalValues ==
    [][op' = "interval_ms" =>
          /\ got'.num = (IF 1000 \div ctrl.fps < 1 THEN 1 ELSE 1000 \div ctrl.fps)
          /\ got'.num >= 1
          /\ ctrl.fps = 24 => got'.num = 41
          /\ ctrl.fps = 60 => got'.num = 16
          /\ ctrl.fps = 1 => got'.num = 1000
          /\ ctrl.fps >= 1000 => got'.num = 1]_vars

\* the interval was read at a frame rate above 1000
C29_Witness == op = "interval_ms" /\ ctrl.fps > 1000 /\ got.num = 1

(***************************************************************************)
(* Claims about the stored frames during a loading session.                *)
(***************************************************************************)
\* C30: within one loading session (between two start_loading/reset calls) a
\* frame is never downgraded: once frames[i] carries color data it carries
\* color data after every later loader operation (add_text_frame,
\* finish_text_loading, set_frame_color, skip_frame_color, set_error); the
\* text content of stored frames and the length of the frames list are not
\* changed by any phase-2 operation; and has_any_color() is true exactly when
\* at least one stored frame carries color data.
C30_NeverDowngraded ==
    [][(op' \notin {"start_loading", "reset"}) =>
          /\ Len(ls'.frames) >= Len(ls.frames)
          /\ \A i \in 1 .. Len(ls.frames) :
                /\ ls.frames[i].cframe # <<>> => ls'.frames[i].cframe # <<>>
                /\ ls'.frames[i].content = ls.frames[i].content
          /\ op' \in {"finish_text_loading", "set_frame_color", "skip_frame_color",
                      "set_error"} => Len(ls'.frames) = Len(ls.frames)
          /\ has_any_color(ls') <=>
                Cardinality({i \in 1 .. Len(ls'.frames) : ls'.frames[i].cframe # <<>>}) >= 1]_vars

\* one frame holds color data, another does not, and a later operation of the
\* session has run
C30_Witness ==
    /\ op \in {"skip_frame_color", "set_error", "add_text_frame", "finish_text_loading"}
    /\ Len(ls.frames) = 2
    /\ ls.frames[1].cframe # <<>>
    /\ ls.frames[2].cframe = <<>>
    /\ has_any_color(ls)

(***************************************************************************)
(* Claims about the loader's state and its counters.                       *)
(***************************************************************************)
\* C31: start_loading(files) discards everything of the previous session
\* regardless of the phase it was in: afterwards phase == LoadingText, frames
\* is empty, error is unset, text_loaded == color_loaded == 0, text_total ==
\* color_total == len(files), frame_paths is the list of the files' paths in
\* the same order, and can_play() and has_any_color() are false.
C31_StartLoading ==
    [][/\ op' = "start_loading" =>
             /\ ls'.phase = "LoadingText"
             /\ ls'.frames = <<>>
             /\ ls'.error = <<>>
             /\ ls'.progress.text_loaded = 0 /\ ls'.progress.color_loaded = 0
             /\ ls'.progress.text_total = Len(ls'.frame_paths)
             /\ ls'.progress.color_total = Len(ls'.frame_paths)
             /\ ~can_play(ls') /\ ~has_any_color(ls')
       /\ \A fl \in FileLists :
             LET s == start_loading(ls, fl)
             IN  /\ Len(s.frame_paths) = Len(fl)
                 /\ \A i \in 1 .. Len(fl) : s.frame_paths[i] = fl[i].path
                 /\ s.progress.text_total = Len(fl)
                 /\ s.frames = <<>> /\ s.error = <<>> /\ s.phase = "LoadingText"]_vars

\* a session was started with the two files in swapped order
C31_Witness ==
    /\ op = "start_loading"
    /\ ls.frame_paths = <<FrameFile(2).path, FrameFile(1).path>>
    /\ ls.progress.text_total = 2

\* C32: text_percent() and color_percent() equal loaded * 100 / total
\* truncated to an integer when total > 0 and 0 when total == 0, and for
\* every counter state reachable through FrameLoaderState operations the
\* returned value lies in 0 .. 100 (color_loaded <= color_total and
\* text_loaded <= text_total in every reachable state).
C32_Percent ==
    [][LET p == ls.progress
       IN  /\ p.text_loaded <= p.text_total
           /\ p.color_loaded <= p.color_total
           /\ op' = "text_percent" =>
                 /\ got'.num = (IF p.text_total = 0 THEN 0
                                ELSE (p.text_loaded * 100) \div p.text_total)
                 /\ got'.num \in 0 .. 100
           /\ op' = "color_percent" =>
                 /\ got'.num = (IF p.color_total = 0 THEN 0
                                ELSE (p.color_loaded * 100) \div p.color_total)
                 /\ got'.num \in 0 .. 100]_vars

\* C33: playback is allowed only once text loading is complete: in every
\* reachable FrameLoaderState, can_play() implies progress.text_complete(),
\* i.e. text_total > 0 and text_loaded >= text_total.
C33_CanPlay ==
    can_play(ls) =>
        /\ text_complete(ls.progress)
        /\ ls.progress.text_total > 0
        /\ ls.progress.text_loaded >= ls.progress.text_total

\* C34: frames and frame_paths are parallel lists: in every reachable state
\* len(frames) <= len(frame_paths), and whenever the phase is LoadingColors
\* or Complete len(frames) == len(frame_paths) == text_total, so get_frame(i)
\* and get_frame_path(i) are both present or both absent for every index i.
C34_ParallelLists ==
    /\ Len(ls.frames) <= Len(ls.frame_paths)
    /\ ls.phase \in {"LoadingColors", "Complete"} =>
          /\ Len(ls.frames) = Len(ls.frame_paths)
          /\ Len(ls.frame_paths) = ls.progress.text_total
          /\ \A i \in 0 .. (MaxFiles + 1) :
                (get_frame(ls, i) = <<>>) <=> (get_frame_path(ls, i) = <<>>)

(***************************************************************************)
(* Claims about the text decoder.                                          *)
(***************************************************************************)
\* the chars of a decoded frame taken row by row, a newline (10) after each row
RowsOf(c) ==
    LET w == int(c.width)
        h == int(c.height)
    IN  [k \in 1 .. (h * (w + 1)) |->
            IF (k - 1) % (w + 1) = w THEN 10
            ELSE c.chars[((k - 1) \div (w + 1)) * w + ((k - 1) % (w + 1)) + 1]]

\* width 3, height 2, the characters A .. F, every pixel with color bytes v
BytesRows(v) ==
    <<3, 0, 0, 0, 2, 0, 0, 0>>
        \o [i \in 1 .. 24 |-> IF (i - 1) % 4 = 0 THEN 65 + (i - 1) \div 4 ELSE v]

\* C35: parse_cframe_text agrees with parse_cframe on every input: it
\* succeeds exactly when parse_cframe succeeds, and its text is the decoded
\* chars taken row by row with one newline appended after each of the height
\* rows (length height * (width + 1)), independent of all color bytes; width
\* 3, height 2 with the characters A .. F gives the rows ABC and DEF, each
\* followed by a newline.
C35_TextAgrees ==
    /\ (parsed # <<>> /\ text # <<>>) =>
          /\ text[1].ok <=> parsed[1].ok
          /\ parsed[1].ok =>
                /\ text[1].val = RowsOf(parsed[1].val)
                /\ Len(text[1].val) = int(parsed[1].val.height) * (int(parsed[1].val.width) + 1)
    /\ \A v \in {0, 255} :
          /\ parse_cframe_text(BytesRows(v)).ok
          /\ parse_cframe_text(BytesRows(v)).val = <<65, 66, 67, 10, 68, 69, 70, 10>>

\* C40: the size check of parse_cframe and parse_cframe_text is exact for
\* every header: for all u32 width, height > 0 and every buffer shorter than
\* the mathematical value 8 + width*height*4 the result is SizeMismatch, also
\* when width*height*4 does not fit the machine word of the computation
\* (e.g. width = height = 2^31 with an 8-byte buffer); the computed expected
\* size never wraps around to a small value that lets a short buffer pass.
C40_ExactSizeCheck ==
    LET width == u32_from_le_bytes(input, 0)
        height == u32_from_le_bytes(input, 4)
        short == /\ Len(input) >= 8
                 /\ width # <<>>
                 /\ height # <<>>
                 /\ less(nat(Len(input)), Required(width, height))
        mismatch == [ok |-> FALSE,
                     err |-> [kind |-> "SizeMismatch",
                              expected |-> Required(width, height),
                              actual |-> nat(Len(input))]]
    IN  /\ (short /\ parsed # <<>>) => parsed[1] = mismatch
        /\ (short /\ text # <<>>) => text[1] = mismatch

(***************************************************************************)
(* Claims about the controller's invariants.                               *)
(***************************************************************************)
\* C38: current_frame is always a valid frame index: in every state
\* reachable by any sequence of controller operations in which
\* frame_count > 0, current_frame <= frame_count - 1; no tick(),
\* step_forward(), seek() or set_current_frame() moves current_frame to
\* frame_count or beyond, for any range that set_range accepts (including
\* set_range(1.0, 1.0)).
C38_ValidIndex ==
    ctrl.frame_count > 0 => ctrl.current_frame <= ctrl.frame_count - 1

\* C39: the controller is Playing only when there is something to play: in
\* every state reachable by any sequence of controller operations (including
\* set_frame_count(0) during playback and toggle() from Finished),
\* state == Playing implies frame_count > 0.
C39_PlayingHasFrames ==
    ctrl.state = "Playing" => ctrl.frame_count > 0

(***************************************************************************)
(* Claims about the batches of render_cframe.                              *)
(***************************************************************************)
\* the frame rendered, its result, and the cells a batch covers
Drawn == canvas.result[1]
Cols == int(canvas.cframe.width)
Lines == int(canvas.cframe.height)
\* the x offsets of the columns and the y offsets of the rows of the frames
\* drawn, under each font size
ColumnX ==
    [f \in FontSizes, col \in 0 .. (2 * MaxCols) |->
        fp_mul(fp_int(col, F64), char_width(RenderConfig_new(f)), F64)]
RowY ==
    [f \in FontSizes, row \in 0 .. 2 |->
        fp_mul(fp_int(row, F64), line_height(RenderConfig_new(f)), F64)]
\* the f64 quotient a / b, and the whole number nearest to it
Nearest(a, b) == fp_to_usize(fp_round_int(fp_div(a, b, F64)))
\* x / char_width of these x offsets and y / line_height of these y offsets
ColumnOfX ==
    [f \in FontSizes |->
        [x \in {ColumnX[f, col] : col \in 0 .. (2 * MaxCols)} |->
            Nearest(x, char_width(RenderConfig_new(f)))]]
RowOfY ==
    [f \in FontSizes |->
        [y \in {RowY[f, row] : row \in 0 .. 2} |->
            Nearest(y, line_height(RenderConfig_new(f)))]]
\* the row and the column where batch k starts: y / line_height and
\* x / char_width
BatchRow(k) ==
    LET f == canvas.config.font_size
        y == Drawn.batches[k].y
    IN  IF y \in DOMAIN RowOfY[f] THEN RowOfY[f][y] ELSE Nearest(y, line_height(canvas.config))
BatchCol(k) ==
    LET f == canvas.config.font_size
        x == Drawn.batches[k].x
    IN  IF x \in DOMAIN ColumnOfX[f] THEN ColumnOfX[f][x] ELSE Nearest(x, char_width(canvas.config))
\* the x offset of a column and the y offset of a row
XOf(col) ==
    IF col \in 0 .. (2 * MaxCols) THEN ColumnX[canvas.config.font_size, col]
    ELSE fp_mul(fp_int(col, F64), char_width(canvas.config), F64)
YOf(row) ==
    IF row \in 0 .. 2 THEN RowY[canvas.config.font_size, row]
    ELSE fp_mul(fp_int(row, F64), line_height(canvas.config), F64)
Covers(k, row, col) ==
    /\ BatchRow(k) = row
    /\ BatchCol(k) <= col
    /\ col < BatchCol(k) + Len(Drawn.batches[k].text)

\* a cell is skip-worthy: a space, or all three channels below 5
SkipWorthy(row, col) ==
    LET i == row * Cols + col
    IN  \/ canvas.cframe.chars[i + 1] = 32
        \/ \A j \in 1 .. 3 : canvas.cframe.rgb[i * 3 + j] < 5

\* the RGB triple of a cell
ColorAt(row, col) ==
    LET i == row * Cols + col
    IN  <<canvas.cframe.rgb[i * 3 + 1], canvas.cframe.rgb[i * 3 + 2],
          canvas.cframe.rgb[i * 3 + 3]>>

\* the cells are partitioned into the batches, each batch placed at the
\* products x = column * char_width and y = row * line_height
Partitioned ==
    LET n == Len(Drawn.batches)
    IN  /\ \A row \in 0 .. (Lines - 1), col \in 0 .. (Cols - 1) :
              Cardinality({k \in 1 .. n : Covers(k, row, col)})
                  = (IF SkipWorthy(row, col) THEN 0 ELSE 1)
        /\ \A row \in 0 .. (Lines - 1), col \in 0 .. (Cols - 1) :
              ColorAt(row, col) = <<2, 2, 2>> =>
                  ~ \E k \in 1 .. n : Covers(k, row, col)
        /\ \A k \in 1 .. n :
              LET b == Drawn.batches[k]
              IN  /\ b.x = XOf(BatchCol(k))
                  /\ b.y = YOf(BatchRow(k))
                  /\ BatchRow(k) < Lines
                  /\ Len(b.text) >= 1
                  /\ BatchCol(k) + Len(b.text) <= Cols
                  /\ \A i \in 1 .. Len(b.text) :
                        b.text[i] = canvas.cframe.chars[BatchRow(k) * Cols
                                                        + BatchCol(k) + i]
        /\ \A k \in 1 .. (n - 1) :
              \/ BatchRow(k) < BatchRow(k + 1)
              \/ BatchRow(k) = BatchRow(k + 1) /\ BatchCol(k) < BatchCol(k + 1)

\* the f64 quotients x / char_width and y / line_height of batch k are the
\* column and the row where its cells start
QuotientsAreCells(k) ==
    /\ fp_div(Drawn.batches[k].x, char_width(canvas.config), F64)
           = fp_int(BatchCol(k), F64)
    /\ fp_div(Drawn.batches[k].y, line_height(canvas.config), F64)
           = fp_int(BatchRow(k), F64)

\* C36: render_cframe partitions the visible cells into batches: a cell is
\* skip-worthy iff its character is a space or all three of r, g, b are
\* below 5; every cell that is not skip-worthy appears in exactly one batch
\* and no skip-worthy cell appears in any batch (a cell with RGB (2, 2, 2) is
\* skipped whatever its character); each batch lies within one row, starts
\* at column x / char_width of row y / line_height, lists its characters in
\* increasing column order, and batches are emitted in row-major order of
\* their start cell.
C36_Partition ==
    canvas.result # <<>> =>
        /\ Partitioned
        /\ \A k \in 1 .. Len(Drawn.batches) : QuotientsAreCells(k)

\* C36 with the position of a batch given as the code and the
\* specification give it: the partition as above, and each batch starts at
\* the column c of the row r with x = c * char_width and y = r * line_height
\* (f64 products, whose quotient by char_width need not be c again).
C36_PartitionByProduct ==
    canvas.result # <<>> => Partitioned

\* a row of 8 cells was rendered at font size 12 and a batch starts at
\* column 7, where x is 50.39999999999999 and x / char_width is
\* 6.999999999999999
C36_Witness ==
    /\ canvas.result # <<>>
    /\ canvas.config.font_size = fp_int(12, F64)
    /\ Cols = 8
    /\ \E k \in 1 .. Len(Drawn.batches) :
          /\ Drawn.batches[k].x = XOf(7)
          /\ BatchCol(k) = 7
          /\ ~QuotientsAreCells(k)

\* the batches of the four cells A (red), B (red), space, C (green)
FourCells ==
    render_cframe(FrameOf(4, 1, <<<<65, 255, 0, 0>>, <<66, 255, 0, 0>>,
                                  <<32, 0, 0, 0>>, <<67, 0, 255, 0>>>>),
                  RenderConfig_new(fp_int(10, F64))).batches

\* C37: every batch emitted by render_cframe is a maximal run: its cells
\* occupy consecutive columns of one row and all have exactly the batch's RGB
\* triple, and the cell immediately right of the batch and the cell
\* immediately left of it in the same row (when they exist) are either
\* skip-worthy or have a different RGB triple, so no two batches adjacent in
\* a row share a color; the four cells A(red) B(red) space C(green) give
\* exactly the two batches AB (red) and C (green).
C37_MaximalRuns ==
    /\ canvas.result # <<>> =>
          \A k \in 1 .. Len(Drawn.batches) :
             LET b == Drawn.batches[k]
                 row == BatchRow(k)
                 first == BatchCol(k)
                 last == BatchCol(k) + Len(b.text) - 1
             IN  /\ \A col \in first .. last :
                       ColorAt(row, col) = b.color /\ ~SkipWorthy(row, col)
                 /\ last + 1 < Cols =>
                       (SkipWorthy(row, last + 1) \/ ColorAt(row, last + 1) # b.color)
                 /\ first > 0 =>
                       (SkipWorthy(row, first - 1) \/ ColorAt(row, first - 1) # b.color)
                 /\ (k > 1 /\ BatchRow(k - 1) = row
                     /\ BatchCol(k - 1) + Len(Drawn.batches[k - 1].text) = first)
                       => Drawn.batches[k - 1].color # b.color
    /\ FourCells
          = <<[text |-> <<65, 66>>, x |-> Zero, y |-> Zero, color |-> <<255, 0, 0>>],
              [text |-> <<67>>, x |-> ColumnX[fp_int(10, F64), 3], y |-> Zero,
               color |-> <<0, 255, 0>>]>>

\* a batch of two cells was drawn with a batch of another color right after
\* it, in the last column of a wide row, where x / char_width is not whole
C37_Witness ==
    /\ canvas.result # <<>>
    /\ Len(Drawn.batches) >= 2
    /\ Len(Drawn.batches[1].text) = 2
    /\ BatchRow(2) = BatchRow(1)
    /\ BatchCol(2) = BatchCol(1) + 2
    /\ BatchCol(2) = 2 * MaxCols - 1
    /\ Drawn.batches[2].color # Drawn.batches[1].color
    /\ fp_div(Drawn.batches[2].x, char_width(canvas.config), F64).e < 0

====
